---- MODULE Spec2Model ----
(***************************************************************************)
(* Runtime composition layer of freeadmin: the AdminHub                    *)
(* (src/freeadmin/core/runtime/hub.py), the RouterAggregator it mounts     *)
(* through, the admin site's model registry and router builder, and the    *)
(* HTTP server the routers are mounted on.                                 *)
(*                                                                         *)
(* RouterAggregator, AdminRouter and AdminSite live in                     *)
(* freeadmin/core/network/router and freeadmin/core/interface/site, which  *)
(* are not part of src/: they are modelled from spec.md (sections 3, 4.5   *)
(* and 6) and from their tests in src/tests/test_router_aggregator.py.     *)
(***************************************************************************)
EXTENDS Integers, Sequences, FiniteSets, TLC

\* ------------------------------------------------------------------ bounds
\* Router wrappers (AdminRouter + its RouterAggregator) constructed in one run.
MaxAggregators == 2
\* Invocations of the admin site's router-builder in one run.
MaxBuilds == 3
\* Invocations of one AppConfig's startup hook in one run.
MaxReadyCalls == 2

\* ---------------------------------------------------------------- universe
\* AppConfig objects the discovery service can return. "a1" and "a2" are two
\* distinct objects with the same import path.
AppConfigObjs == {"a1", "a2", "b1"}

\* AppConfig.import_path, the key of the hub's config table.
import_path(c) == IF c \in {"a1", "a2"} THEN "pkg.a" ELSE "pkg.b"

\* Keys (app_label.lower(), model_slug.lower()) of the site's model registry.
ModelKeys == {"m1", "m2"}

\* What a config's startup hook registers on the admin site when it runs to
\* completion (tests/multiadapterapp/app.py registers one model admin).
HookRegisters(c) == IF c \in {"a1", "a2"} THEN {"m1"} ELSE {}

\* Settings snapshots (replaced wholesale on reconfiguration).
SettingsSnapshots == {"s0", "s1"}

\* The hub's "no router wrapper" (self._router is None).
None == 0

\* Value of a variable that the specification at hand does not use.
Unused == <<>>

VARIABLES
    hub,          \* AdminHub: _app_configs, _started_configs, _router, _settings
    aggs,         \* every RouterAggregator constructed so far (wrapper = index)
    site,         \* AdminSite: model_reg, _settings, cards, build_router calls
    server,       \* the FastAPI app routers are mounted on
    ready_calls,  \* per AppConfig object: times its startup hook was invoked
    tasks,        \* start_app_configs coroutines (position between awaits)
    last,         \* the call made last and what it returned
    boot,         \* BootManager, AdapterRegistry and the hubs built on them
    ext,          \* an ExtendedRouterAggregator and its public routers
    sidebar       \* the registries SidebarBuilder reads and what it built

vars == <<hub, aggs, site, server, ready_calls, tasks, last, boot, ext, sidebar>>

\* The parts of the state the synchronous operations read and write.
St == [hub |-> hub, aggs |-> aggs, site |-> site, server |-> server]

\* --------------------------------------------------------------- AdminSite
\* A router object: which build produced it and the registry it was built from.
NoRouter == [id |-> 0, entries |-> {}]

\* AdminSite.build_router(): a new router for the entries registered now.
BuildRouter(s) == [id |-> s.build_calls + 1, entries |-> s.model_reg]

\* AdminSite.register(app, model, admin_cls, ...): last write wins on the key.
SiteRegister(st, keys) == [st EXCEPT !.site.model_reg = @ \cup keys]

\* -------------------------------------------------------- RouterAggregator
\* RouterAggregator(site, settings=...): nothing built, nothing mounted.
NewAggregator(settings) ==
    [admin_router    |-> NoRouter,
     mounted         |-> FALSE,
     static_mounted  |-> FALSE,
     favicon_mounted |-> FALSE,
     media_mounted   |-> FALSE,
     settings        |-> settings]

\* Mutant of GetAdminRouter: the router is built on every call.
GetAdminRouterAlwaysBuild(st, a) ==
    [st EXCEPT !.aggs[a].admin_router = BuildRouter(st.site),
               !.site.build_calls = @ + 1]

\* RouterAggregator.get_admin_router(): the cached router, built on first need.
GetAdminRouter(st, a) ==
    IF st.aggs[a].admin_router # NoRouter
    THEN st
    ELSE [st EXCEPT !.aggs[a].admin_router = BuildRouter(st.site),
                    !.site.build_calls = @ + 1]

\* Mutant of InvalidateAdminRouter: the one-time mount flags are cleared too.
InvalidateAdminRouterAndFlags(st, a) ==
    [st EXCEPT !.aggs[a] = NewAggregator(@.settings)]

\* RouterAggregator.invalidate_admin_router(): drops the cached router only.
InvalidateAdminRouter(st, a) ==
    [st EXCEPT !.aggs[a].admin_router = NoRouter]

\* Mutant of MountInto: the one-time flags are not consulted.
MountIntoNoFlags(st, a) ==
    [st EXCEPT
       !.server = [included   |-> @.included + 1,
                   static     |-> @.static + 1,
                   favicon    |-> @.favicon + 1,
                   media      |-> @.media + 1,
                   admin_site |-> TRUE],
       !.aggs[a] = [@ EXCEPT !.mounted = TRUE,
                             !.static_mounted = TRUE,
                             !.favicon_mounted = TRUE,
                             !.media_mounted = TRUE]]

\* The mounting part of mount(): include the admin router, mount static,
\* favicon and media unless this aggregator already did, stash the site.
MountInto(st, a) ==
    LET g == st.aggs[a]
        Once(flag) == IF flag THEN 0 ELSE 1
    IN [st EXCEPT
          !.server = [included   |-> @.included + 1,
                      static     |-> @.static + Once(g.static_mounted),
                      favicon    |-> @.favicon + Once(g.favicon_mounted),
                      media      |-> @.media + Once(g.media_mounted),
                      admin_site |-> TRUE],
          !.aggs[a] = [@ EXCEPT !.mounted = TRUE,
                                !.static_mounted = TRUE,
                                !.favicon_mounted = TRUE,
                                !.media_mounted = TRUE]]

\* Mutant of Mount: the "built" check is missing, every call mounts again.
MountNoBuiltCheck(st, a) == MountInto(GetAdminRouter(st, a), a)

\* RouterAggregator.mount(server): a no-op once built and still cached;
\* otherwise builds (through the cache) and mounts.
Mount(st, a) ==
    IF st.aggs[a].mounted /\ st.aggs[a].admin_router # NoRouter
    THEN st
    ELSE MountInto(GetAdminRouter(st, a), a)

\* len(app.router.routes): one entry per included admin router and per
\* static, favicon and media mount.
RouteCount(srv) == srv.included + srv.static + srv.favicon + srv.media

\* ---------------------------------------------------------------- AdminHub
\* Mutant of GetRouter: a wrapper is constructed on every call.
GetRouterAlwaysNew(st) ==
    [st EXCEPT !.aggs = Append(@, NewAggregator(st.hub.settings)),
               !.hub.router = Len(st.aggs) + 1]

\* AdminHub._get_router(): the wrapper is constructed once, with the hub's
\* current settings, and kept until invalidated.
GetRouter(st) ==
    IF st.hub.router = None
    THEN [st EXCEPT !.aggs = Append(@, NewAggregator(st.hub.settings)),
                    !.hub.router = Len(st.aggs) + 1]
    ELSE st

\* Mutant of InvalidateRouterCache: the hub drops the wrapper and leaves the
\* aggregator's router in place.
InvalidateRouterCacheWrapperOnly(st) == [st EXCEPT !.hub.router = None]

\* AdminHub._invalidate_router_cache(): the wrapper's aggregator drops its
\* cached admin router, then the hub drops the wrapper.
InvalidateRouterCache(st) ==
    IF st.hub.router = None
    THEN st
    ELSE [InvalidateAdminRouter(st, st.hub.router) EXCEPT !.hub.router = None]

\* Import paths of a config table (the keys of self._app_configs).
Paths(table) == {import_path(table[i]) : i \in 1..Len(table)}

\* Mutant of RegisterConfigs: a rediscovered path replaces the stored config.
RECURSIVE RegisterConfigsOverwrite(_, _)
RegisterConfigsOverwrite(table, configs) ==
    IF configs = <<>> THEN table
    ELSE LET c == Head(configs)
             t == IF import_path(c) \in Paths(table)
                  THEN [i \in 1..Len(table) |->
                          IF import_path(table[i]) = import_path(c)
                          THEN c ELSE table[i]]
                  ELSE Append(table, c)
         IN RegisterConfigsOverwrite(t, Tail(configs))

\* The loop of autodiscover: a config whose import path is already in the
\* table is skipped, a new one is inserted at the end (dict insertion order).
RECURSIVE RegisterConfigs(_, _)
RegisterConfigs(table, configs) ==
    IF configs = <<>> THEN table
    ELSE LET c == Head(configs)
         IN RegisterConfigs(
                IF import_path(c) \in Paths(table) THEN table ELSE Append(table, c),
                Tail(configs))

\* Mutant of NewConfigRegistered: the flag is never raised.
NewConfigRegisteredNever(table, configs) == FALSE

\* new_config_registered: at least one discovered path was not in the table.
NewConfigRegistered(table, configs) ==
    \E i \in 1..Len(configs) : import_path(configs[i]) \notin Paths(table)

\* AdminHub.autodiscover(packages) for a non-empty package list whose
\* discovery yields `configs`.
Autodiscover(st, configs) ==
    LET s1 == [st EXCEPT !.hub.app_configs = RegisterConfigs(@, configs)]
    IN IF NewConfigRegistered(st.hub.app_configs, configs)
       THEN InvalidateRouterCache(s1)
       ELSE s1

\* AdminHub.init_app(app, packages): autodiscover when packages are given,
\* then mount through the cached wrapper.
InitApp(st, packages, configs) ==
    LET s1 == IF packages THEN Autodiscover(st, configs) ELSE st
        s2 == GetRouter(s1)
    IN Mount(s2, s2.hub.router)

\* Mutant of HandleSettingsUpdate: the router cache is left alone.
HandleSettingsUpdateNoInvalidate(st, s) ==
    [st EXCEPT !.hub.settings = s,
               !.site.settings = s,
               !.site.cards_settings = s]

\* AdminHub._handle_settings_update(settings). Both branches for the cards
\* collaborator (apply_settings, or field assignment plus cache
\* reconfiguration) leave it holding the new snapshot.
HandleSettingsUpdate(st, s) ==
    LET s1 == [st EXCEPT !.hub.settings = s, !.site.settings = s]
        s2 == InvalidateRouterCache(s1)
    IN [s2 EXCEPT !.site.cards_settings = s]

\* ------------------------------------------------------- start_app_configs
Tasks == {1, 2}

IdleTask == [pc |-> "idle", snapshot |-> <<>>, idx |-> 0,
             invoked |-> <<>>, raised |-> {}]

\* Mutant of Items: the table is walked in alphabetical order of import path.
ItemsSorted(table) ==
    LET n == Len(table)
        Rank(i) == Cardinality({j \in 1..n :
                       \/ import_path(table[j]) = "pkg.a" /\ import_path(table[i]) = "pkg.b"
                       \/ import_path(table[j]) = import_path(table[i]) /\ j < i})
    IN [k \in 1..n |-> table[CHOOSE i \in 1..n : Rank(i) = k - 1]]

\* list(self._app_configs.items()): the table as it is when the loop begins,
\* in insertion order.
Items(table) == table

\* Mutant of Iterated: the loop walks the table as it is now.
IteratedLive(task, table) == [task EXCEPT !.snapshot = table]

\* `for path, config in list(self._app_configs.items())`: the loop walks the
\* list made when it began, whatever the table holds when it resumes.
Iterated(task, table) == task

\* Mutant of NextPending: started paths are not skipped.
NextPendingNoSkip(snapshot, started, i) == i

\* The loop's `if path in self._started_configs: continue`: the first position
\* from i on whose path is not started (Len + 1 when there is none).
RECURSIVE NextPending(_, _, _)
NextPending(snapshot, started, i) ==
    IF i > Len(snapshot) THEN i
    ELSE IF import_path(snapshot[i]) \in started
         THEN NextPending(snapshot, started, i + 1)
         ELSE i

\* Run the loop from position i up to its next await: either the hook of the
\* next pending config is invoked, or the loop ends and the call returns.
Resume(task, started, i) ==
    LET j == NextPending(task.snapshot, started, i)
    IN IF j > Len(task.snapshot)
       THEN [task EXCEPT !.pc = "done", !.idx = j]
       ELSE [task EXCEPT !.pc = "awaiting", !.idx = j,
                         !.invoked = Append(@, task.snapshot[j])]

\* Mutant of AfterRaise: the exception leaves the loop and the call.
AfterRaisePropagate(task, started) ==
    [task EXCEPT !.pc = "raised", !.raised = @ \cup {task.snapshot[task.idx]}]

\* `except Exception: ... continue`: the failure is logged, the path is not
\* marked started and the loop goes on with the next config.
AfterRaise(task, started) ==
    Resume([task EXCEPT !.raised = @ \cup {task.snapshot[task.idx]}],
           started, task.idx + 1)

\* Mutant of StartedAfterReturn: the set is replaced by the one path.
StartedAfterReturnOnly(started, c) == {import_path(c)}

\* self._started_configs.add(path) after the hook returned.
StartedAfterReturn(started, c) == started \cup {import_path(c)}

\* Mutant of StartedAfterRaise: the path of a raising hook is marked started.
StartedAfterRaiseMarked(started, c) == started \cup {import_path(c)}

\* The `continue` of the except branch skips self._started_configs.add(path):
\* the started set after the hook raised.
StartedAfterRaise(started, c) == started

\* The config whose hook task t is awaiting.
Awaited(t) == tasks[t].snapshot[tasks[t].idx]

\* ready_calls after the step that took `before` to `after`: the hook invoked
\* last, if the step invoked one, is counted.
Count(before, after) ==
    IF Len(after.invoked) > Len(before.invoked)
    THEN [ready_calls EXCEPT ![after.invoked[Len(after.invoked)]] = @ + 1]
    ELSE ready_calls

\* The step may run only while every counter stays within its bound.
WithinBounds(st, calls) ==
    /\ Len(st.aggs) <= MaxAggregators
    /\ st.site.build_calls <= MaxBuilds
    /\ \A c \in AppConfigObjs : calls[c] <= MaxReadyCalls

\* Lists the discovery service may return: the discovered config objects,
\* each once, in any order.
Discoverable ==
    {q \in UNION {[1..n -> AppConfigObjs] : n \in 0..Cardinality(AppConfigObjs)} :
        \A i, j \in 1..Len(q) : i # j => q[i] # q[j]}

Commit(st) ==
    /\ hub' = st.hub
    /\ aggs' = st.aggs
    /\ site' = st.site
    /\ server' = st.server
    /\ UNCHANGED <<boot, ext, sidebar>>

\* ----------------------------------------------------------------- actions
\* hub.autodiscover(packages)
DoAutodiscover ==
    \E packages \in BOOLEAN, configs \in Discoverable :
        LET st == IF packages THEN Autodiscover(St, configs) ELSE St
        IN /\ packages \/ configs = <<>>
           /\ WithinBounds(st, ready_calls)
           /\ Commit(st)
           /\ last' = [op |-> "autodiscover",
                       new |-> st.hub.app_configs # hub.app_configs,
                       duplicate |-> \E i \in 1..Len(configs) :
                                    \E j \in 1..Len(hub.app_configs) :
                                       /\ import_path(configs[i])
                                            = import_path(hub.app_configs[j])
                                       /\ configs[i] # hub.app_configs[j],
                       cached |-> hub.router # None]
           /\ UNCHANGED <<ready_calls, tasks>>

\* hub.init_app(app, packages=...)
DoInitApp ==
    \E packages \in BOOLEAN, configs \in Discoverable :
        LET st == InitApp(St, packages, configs)
        IN /\ packages \/ configs = <<>>
           /\ WithinBounds(st, ready_calls)
           /\ Commit(st)
           /\ last' = [op |-> "init_app", agg |-> st.hub.router]
           /\ UNCHANGED <<ready_calls, tasks>>

\* The settings observer of the hub is notified with a new snapshot.
DoHandleSettingsUpdate ==
    \E s \in SettingsSnapshots :
        /\ Commit(HandleSettingsUpdate(St, s))
        /\ last' = [op |-> "settings_update", settings |-> s,
                    cached |-> hub.router # None]
        /\ UNCHANGED <<ready_calls, tasks>>

\* admin_site.register(...) called by project code.
DoSiteRegister ==
    \E k \in ModelKeys :
        /\ Commit(SiteRegister(St, {k}))
        /\ last' = [op |-> "register"]
        /\ UNCHANGED <<ready_calls, tasks>>

\* aggregator.get_admin_router() by a caller holding aggregator a.
DoGetAdminRouter ==
    \E a \in 1..Len(aggs) :
        LET st == GetAdminRouter(St, a)
        IN /\ WithinBounds(st, ready_calls)
           /\ Commit(st)
           /\ last' = [op |-> "get_admin_router", agg |-> a,
                       cached |-> aggs[a].admin_router # NoRouter]
           /\ UNCHANGED <<ready_calls, tasks>>

\* hub._get_router().aggregator.get_admin_router(): the admin router as the
\* hub serves it now.
DoHubGetAdminRouter ==
    LET s1 == GetRouter(St)
        st == GetAdminRouter(s1, s1.hub.router)
    IN /\ WithinBounds(st, ready_calls)
       /\ Commit(st)
       /\ last' = [op |-> "get_admin_router", agg |-> st.hub.router,
                   cached |-> s1.aggs[s1.hub.router].admin_router # NoRouter]
       /\ UNCHANGED <<ready_calls, tasks>>

\* aggregator.mount(server) by a caller holding aggregator a.
DoMount ==
    \E a \in 1..Len(aggs) :
        LET st == Mount(St, a)
        IN /\ WithinBounds(st, ready_calls)
           /\ Commit(st)
           /\ last' = [op |-> "mount", agg |-> a,
                       built |-> aggs[a].mounted /\ aggs[a].admin_router # NoRouter]
           /\ UNCHANGED <<ready_calls, tasks>>

\* aggregator.invalidate_admin_router() by a caller holding aggregator a.
DoInvalidateAdminRouter ==
    \E a \in 1..Len(aggs) :
        /\ Commit(InvalidateAdminRouter(St, a))
        /\ last' = [op |-> "invalidate_admin_router", agg |-> a,
                    cached |-> aggs[a].admin_router # NoRouter]
        /\ UNCHANGED <<ready_calls, tasks>>

\* hub.start_app_configs() is called and runs up to its first await (or to
\* its end when nothing is pending).
Start(t) ==
    /\ tasks[t].pc \in {"idle", "done"}
    /\ LET task == Resume([IdleTask EXCEPT !.snapshot = Items(hub.app_configs)],
                          hub.started_configs, 1)
       IN /\ WithinBounds(St, Count(tasks[t], task))
          /\ ready_calls' = Count([tasks[t] EXCEPT !.invoked = <<>>], task)
          /\ tasks' = [tasks EXCEPT ![t] = task]
    /\ last' = [op |-> "start_app_configs", task |-> t]
    /\ UNCHANGED <<hub, aggs, site, server, boot, ext, sidebar>>

\* The framework's startup sequence calls start_app_configs; its handlers run
\* one after another, so no other call is in flight.
StartAppConfigs ==
    /\ \A t \in Tasks : tasks[t].pc # "awaiting"
    /\ Start(1)

\* The awaited hook returns: what it registered is on the site, its path is
\* marked started, and the loop runs on to its next await.
HookReturns ==
    \E t \in Tasks :
        /\ tasks[t].pc = "awaiting"
        /\ LET c == Awaited(t)
               st == SiteRegister(St, HookRegisters(c))
               started == StartedAfterReturn(hub.started_configs, c)
               task == Resume(Iterated(tasks[t], hub.app_configs), started,
                              tasks[t].idx + 1)
           IN /\ WithinBounds(st, Count(tasks[t], task))
              /\ Commit([st EXCEPT !.hub.started_configs = started])
              /\ ready_calls' = Count(tasks[t], task)
              /\ tasks' = [tasks EXCEPT ![t] = task]
              /\ last' = [op |-> "hook_returns", config |-> c]

\* The awaited hook raises.
HookRaises ==
    \E t \in Tasks :
        /\ tasks[t].pc = "awaiting"
        /\ LET c == Awaited(t)
               started == StartedAfterRaise(hub.started_configs, c)
               task == AfterRaise(Iterated(tasks[t], hub.app_configs), started)
           IN /\ WithinBounds(St, Count(tasks[t], task))
              /\ hub' = [hub EXCEPT !.started_configs = started]
              /\ ready_calls' = Count(tasks[t], task)
              /\ tasks' = [tasks EXCEPT ![t] = task]
              /\ last' = [op |-> "hook_raises", config |-> c]
        /\ UNCHANGED <<aggs, site, server, boot, ext, sidebar>>

\* ---------------------------------------------------------- specifications
NewSite(settings) ==
    [model_reg |-> {}, settings |-> settings, cards_settings |-> settings,
     build_calls |-> 0]

NewServer ==
    [included |-> 0, static |-> 0, favicon |-> 0, media |-> 0, admin_site |-> FALSE]

\* AdminHub(): a site bound to the current settings, empty tables, no wrapper.
Init ==
    /\ hub = [app_configs |-> <<>>, started_configs |-> {}, router |-> None,
              settings |-> "s0"]
    /\ aggs = <<>>
    /\ site = NewSite("s0")
    /\ server = NewServer
    /\ ready_calls = [c \in AppConfigObjs |-> 0]
    /\ tasks = [t \in Tasks |-> IdleTask]
    /\ last = [op |-> "init"]
    /\ boot = Unused /\ ext = Unused /\ sidebar = Unused

Next ==
    \/ DoAutodiscover
    \/ DoInitApp
    \/ DoHandleSettingsUpdate
    \/ DoSiteRegister
    \/ DoHubGetAdminRouter

\* One AdminHub, its site and the server: discovery, mounting, settings and
\* registry changes (no startup hooks).
Spec == Init /\ [][Next]_vars

NextStartup ==
    \/ DoAutodiscover
    \/ StartAppConfigs
    \/ HookReturns
    \/ HookRaises

\* One AdminHub: discovery and the startup hooks (no router is mounted).
SpecStartup == Init /\ [][NextStartup]_vars

NextBoot ==
    \/ DoInitApp
    \/ DoHubGetAdminRouter
    \/ StartAppConfigs
    \/ HookReturns
    \/ HookRaises

\* The boot sequence of BootManager.init: init_app mounts the router, then the
\* framework's startup event runs the startup hooks.
SpecBoot == Init /\ [][NextBoot]_vars

\* RouterAggregator(site=site, prefix="/admin") held by the caller, no hub.
InitAgg ==
    /\ hub = [app_configs |-> <<>>, started_configs |-> {}, router |-> None,
              settings |-> "s0"]
    /\ aggs = <<NewAggregator("s0")>>
    /\ site = NewSite("s0")
    /\ server = NewServer
    /\ ready_calls = [c \in AppConfigObjs |-> 0]
    /\ tasks = [t \in Tasks |-> IdleTask]
    /\ last = [op |-> "init"]
    /\ boot = Unused /\ ext = Unused /\ sidebar = Unused

NextAgg ==
    \/ DoMount
    \/ DoGetAdminRouter
    \/ DoInvalidateAdminRouter
    \/ DoSiteRegister

\* One RouterAggregator, its site and the server it is mounted on.
SpecAgg == InitAgg /\ [][NextAgg]_vars

\* ------------------------------------------------------------------ claims
\* Whether aggregator a holds a built router.
Cached(g) == g.admin_router # NoRouter

\* C1: mount(server) is idempotent. A mount() on an aggregator that is built
\* and whose cache was not invalidated since invokes the router-builder no
\* further time and leaves the server's route count (and every mount count)
\* as the first call left them; the first mount() invokes the builder once,
\* unless get_admin_router() already built the router.
C1_MountIdempotent ==
    [][\A a \in 1..Len(aggs) :
          (last'.op = "mount" /\ last'.agg = a) =>
             IF aggs[a].mounted /\ Cached(aggs[a])
             THEN /\ site'.build_calls = site.build_calls
                  /\ RouteCount(server') = RouteCount(server)
                  /\ server' = server
                  /\ aggs' = aggs
             ELSE /\ site'.build_calls
                       = site.build_calls + (IF Cached(aggs[a]) THEN 0 ELSE 1)
                  /\ aggs'[a].mounted /\ Cached(aggs'[a])]_vars

\* C1 witness: mount() was called on the already mounted aggregator, and the
\* builder has run once in all.
C1_Witness ==
    /\ last.op = "mount" /\ last.built
    /\ site.build_calls = 1
    /\ RouteCount(server) = 4

\* C8: invalidate_admin_router() clears the cached router and nothing else
\* (the static, favicon and media flags, the server and the site are left as
\* they were), and the get_admin_router() or mount() that follows it invokes
\* the router-builder again and holds the router of that new build.
C8_InvalidateClearsOnlyRouter ==
    [][/\ last'.op = "invalidate_admin_router" =>
             /\ aggs' = [aggs EXCEPT ![last'.agg].admin_router = NoRouter]
             /\ server' = server /\ site' = site /\ hub' = hub
       /\ ( /\ last.op = "invalidate_admin_router"
            /\ last'.op \in {"get_admin_router", "mount"}
            /\ last'.agg = last.agg ) =>
             /\ site'.build_calls = site.build_calls + 1
             /\ aggs'[last.agg].admin_router
                   = [id |-> site'.build_calls, entries |-> site.model_reg]]_vars

\* C8 witness: a mounted aggregator was invalidated and has rebuilt its router.
C8_Witness ==
    /\ last.op = "get_admin_router" /\ ~last.cached
    /\ aggs[last.agg].static_mounted
    /\ aggs[last.agg].admin_router.id = 2

\* C9: over any sequence of mount() and invalidate_admin_router() calls on one
\* aggregator, static, favicon and media are each mounted exactly once (by the
\* first mount), and from the first mount on the server's shared state holds
\* the site.
C9_MountsOnce ==
    /\ server.static <= 1 /\ server.favicon <= 1 /\ server.media <= 1
    /\ aggs[1].mounted <=>
          (server.static = 1 /\ server.favicon = 1 /\ server.media = 1)
    /\ aggs[1].mounted => server.admin_site
    /\ aggs[1].mounted <=> aggs[1].static_mounted
    /\ aggs[1].mounted <=> aggs[1].favicon_mounted
    /\ aggs[1].mounted <=> aggs[1].media_mounted

\* C9 witness: the aggregator was mounted, invalidated and mounted again.
C9_Witness ==
    /\ last.op = "mount" /\ ~last.built
    /\ server.included = 2
    /\ server.static = 1

\* The elements of a sequence.
Range(q) == {q[i] : i \in 1..Len(q)}

\* C2: an autodiscover() that inserts a config under a new import path drops
\* the hub's router wrapper and its aggregator's cached router, so the next
\* get_admin_router() invokes the router-builder again; an autodiscover() that
\* finds only known import paths changes neither the table, the wrapper, the
\* aggregators nor the site, and the next get_admin_router() builds nothing.
C2_AutodiscoverCoherence ==
    [][/\ last'.op = "autodiscover" =>
             IF last'.new
             THEN /\ hub'.router = None
                  /\ hub.router # None =>
                        aggs' = [aggs EXCEPT ![hub.router].admin_router = NoRouter]
                  /\ site' = site
             ELSE hub' = hub /\ aggs' = aggs /\ site' = site
       /\ (last.op = "autodiscover" /\ last'.op = "get_admin_router") =>
             /\ last.new => site'.build_calls = site.build_calls + 1
             /\ (~last.new /\ last.cached) =>
                   site'.build_calls = site.build_calls]_vars

\* C2 witness: with the router mounted, autodiscover() has registered a
\* config under a new import path.
C2_Witness ==
    /\ last.op = "autodiscover" /\ last.new /\ last.cached
    /\ server.included >= 1
    /\ hub.router = None

\* C6: a settings notification stores the snapshot on the hub and its site
\* and, within the same call, drops the wrapper and its aggregator's cached
\* router; the get_admin_router()/init_app() that follows builds again,
\* through a new wrapper that holds the new snapshot. Every wrapper is built
\* with the snapshot the hub and its site hold at that time.
C6_SettingsPropagation ==
    [][/\ last'.op = "settings_update" =>
             /\ hub'.settings = last'.settings
             /\ site'.settings = last'.settings
             /\ hub'.router = None
             /\ hub.router # None =>
                   aggs' = [aggs EXCEPT ![hub.router].admin_router = NoRouter]
       /\ (last.op = "settings_update"
             /\ last'.op \in {"get_admin_router", "init_app"}) =>
             /\ site'.build_calls = site.build_calls + 1
             /\ hub'.router = Len(aggs) + 1
             /\ aggs'[hub'.router].settings = last.settings
             /\ hub'.settings = last.settings
             /\ site'.settings = last.settings
       /\ Len(aggs') > Len(aggs) =>
             aggs'[Len(aggs')].settings = hub'.settings
       /\ site'.settings = hub'.settings]_vars

\* C6 witness: after a notification that found a wrapper, the router was
\* rebuilt through a second wrapper holding the new snapshot.
C6_Witness ==
    /\ last.op = "get_admin_router" /\ ~last.cached
    /\ hub.router = 2
    /\ aggs[2].settings = "s1" /\ aggs[1].settings = "s0"
    /\ hub.settings = "s1"

\* C7: the router that mount()/get_admin_router() hands out reflects the
\* model registry as it is at that time.
C7_NoStaleRouter ==
    last.op \in {"get_admin_router", "init_app"} =>
        aggs[last.agg].admin_router.entries = site.model_reg

\* C10: the config table holds one entry per import path, and an entry, once
\* inserted, is never replaced or moved by a later discovery of its path.
C10_RegistrationIdempotent ==
    [][/\ \A i, j \in 1..Len(hub'.app_configs) :
             i # j => import_path(hub'.app_configs[i])
                        # import_path(hub'.app_configs[j])
       /\ Len(hub'.app_configs) >= Len(hub.app_configs)
       /\ \A i \in 1..Len(hub.app_configs) :
             hub'.app_configs[i] = hub.app_configs[i]
       /\ hub'.started_configs \subseteq Paths(hub'.app_configs)]_vars

\* C10 witness: a started path was discovered again under another config
\* object, and the table still holds the first object.
C10_Witness ==
    /\ last.op = "autodiscover" /\ last.duplicate
    /\ hub.app_configs = <<"a1">>
    /\ hub.started_configs = {"pkg.a"}

\* C3 as stated: every registered config's hook runs exactly once, whatever
\* number of start_app_configs calls are made.
C3_HookRunsExactlyOnce ==
    /\ \A c \in AppConfigObjs : ready_calls[c] <= 1
    /\ \A t \in Tasks : tasks[t].pc = "done" =>
          \A c \in Range(tasks[t].snapshot) : ready_calls[c] = 1

\* C3 amended: only hooks of registered configs are invoked; a call invokes
\* the hook of every registered config that is not started when its turn
\* comes; a hook that returns marks its path started, and the hook of a
\* started path is never invoked again. (A hook that raised is invoked again
\* by the next call.)
C3_HookOnceStarted ==
    [][/\ \A c \in AppConfigObjs :
             ready_calls'[c] # ready_calls[c] =>
                /\ ready_calls'[c] = ready_calls[c] + 1
                /\ c \in Range(hub.app_configs)
                /\ import_path(c) \notin hub.started_configs
       /\ last'.op = "hook_returns" =>
             import_path(last'.config) \in hub'.started_configs
       /\ \A t \in Tasks : tasks'[t].pc = "done" =>
             \A c \in Range(tasks'[t].snapshot) :
                \/ import_path(c) \in hub'.started_configs
                \/ c \in tasks'[t].raised]_vars

\* C3 witness: a hook raised, was invoked again by the next call and
\* returned, and a later call invoked nothing.
C3_Witness ==
    /\ ready_calls["a1"] = 2
    /\ "pkg.a" \in hub.started_configs
    /\ last.op = "start_app_configs"
    /\ tasks[1].pc = "done" /\ tasks[1].snapshot # <<>> /\ tasks[1].invoked = <<>>

\* C4: a call walks the configs in the order of their insertion into the
\* table (its snapshot is the table as it was, in that order), invokes the
\* hooks in that order, and invokes a hook only in the step in which the
\* hook before it completed.
C4_RegistrationOrder ==
    [][\A t \in Tasks :
          LET task == tasks'[t]
              Pos(c) == CHOOSE i \in 1..Len(task.snapshot) : task.snapshot[i] = c
          IN /\ task.snapshot
                  = SubSeq(hub'.app_configs, 1, Len(task.snapshot))
             /\ \A i, j \in 1..Len(task.invoked) :
                   i < j => Pos(task.invoked[i]) < Pos(task.invoked[j])
             /\ (tasks[t].pc = "awaiting"
                   /\ Len(task.invoked) > Len(tasks[t].invoked)) =>
                   /\ last'.op \in {"hook_returns", "hook_raises"}
                   /\ last'.config = Awaited(t)]_vars

\* C4 witness: "pkg.b" was registered before "pkg.a", and one call ran the
\* hook of "pkg.b" and then the hook of "pkg.a".
C4_Witness ==
    /\ hub.app_configs = <<"b1", "a1">>
    /\ tasks[1].pc = "done"
    /\ tasks[1].invoked = <<"b1", "a1">>

\* C5: a raising hook does not end the call: the call never ends by an
\* exception, and when it has returned, every config of its snapshot was
\* either invoked in this call or already started, and every config that did
\* not raise is marked started.
C5_FailureContained ==
    \A t \in Tasks :
        /\ tasks[t].pc # "raised"
        /\ tasks[t].raised \subseteq Range(tasks[t].invoked)
        /\ tasks[t].pc = "done" =>
              \A c \in Range(tasks[t].snapshot) :
                 /\ c \in Range(tasks[t].invoked)
                      \/ import_path(c) \in hub.started_configs
                 /\ c \notin tasks[t].raised
                      => import_path(c) \in hub.started_configs

\* C5 witness: the first hook of a call raised, the hook of the config after
\* it was still invoked and is started, and the call returned.
C5_Witness ==
    /\ tasks[1].pc = "done"
    /\ tasks[1].invoked = <<"a1", "b1">>
    /\ tasks[1].raised = {"a1"}
    /\ hub.started_configs = {"pkg.b"}

\* ------------------------------------------------------------- BootManager
\* (src/freeadmin/core/boot/manager.py). The AdapterRegistry
\* (freeadmin/contrib/adapters) and the ModelRegistrar
\* (freeadmin/core/boot/registry.py) are not part of src/: they are modelled
\* from spec.md sections 4.1 and 4.3.

\* The keys of required_attributes, in the order of the dict literal.
RequiredAttributes ==
    <<"user_model", "user_permission_model", "group_model",
      "group_permission_model", "content_type_model", "system_setting_model",
      "perm_action", "setting_value_type">>

\* required_attributes[attr]: the human label of a binding.
Description(attr) ==
    CASE attr = "user_model"             -> "user model"
      [] attr = "user_permission_model"  -> "user permission model"
      [] attr = "group_model"            -> "group model"
      [] attr = "group_permission_model" -> "group permission model"
      [] attr = "content_type_model"     -> "content type model"
      [] attr = "system_setting_model"   -> "system setting model"
      [] attr = "perm_action"            -> "permission action enumeration"
      [] attr = "setting_value_type"     -> "setting value enumeration"

\* What an adapter object can hold under an attribute name: a value, None,
\* or no such attribute at all.
AttrStates == {"set", "none", "absent"}

\* Names adapters are registered under. NoName: the object has no `name`.
AdapterNames == {"alpha", "beta"}
NoName == ""

\* The empty adapter slot (self._adapter is None).
NoAdapter == [id |-> 0]

\* getattr(adapter, attr, None)
GetAttr(adapter, attr) ==
    IF adapter.attrs[attr] = "set" THEN "set" ELSE "none"

\* The bindings of required_attributes the adapter lacks.
Lacks(adapter) ==
    {RequiredAttributes[i] : i \in
        {j \in 1..Len(RequiredAttributes) :
            GetAttr(adapter, RequiredAttributes[j]) = "none"}}

\* Mutant of Missing: stops at the first absent binding.
RECURSIVE MissingShortCircuit(_, _)
MissingShortCircuit(adapter, i) ==
    IF i > Len(RequiredAttributes) THEN <<>>
    ELSE IF GetAttr(adapter, RequiredAttributes[i]) = "none"
         THEN <<Description(RequiredAttributes[i])>>
         ELSE MissingShortCircuit(adapter, i + 1)

\* missing = [description for attr, description in required_attributes.items()
\*            if getattr(self._adapter, attr, None) is None], from item i on.
RECURSIVE Missing(_, _)
Missing(adapter, i) ==
    IF i > Len(RequiredAttributes) THEN <<>>
    ELSE (IF GetAttr(adapter, RequiredAttributes[i]) = "none"
          THEN <<Description(RequiredAttributes[i])>> ELSE <<>>)
         \o Missing(adapter, i + 1)

\* sep.join(parts), as the pieces of text it is made of.
RECURSIVE Join(_, _)
Join(parts, sep) ==
    IF Len(parts) <= 1 THEN parts
    ELSE <<Head(parts), sep>> \o Join(Tail(parts), sep)

\* getattr(self._adapter, "name", "unknown")
AdapterDisplayName(adapter) ==
    IF adapter.name = NoName THEN "unknown" ELSE adapter.name

\* f"Adapter '{adapter_name}' is missing required system components:
\*   {missing_display}.", as the pieces of text it is made of.
MissingMessage(adapter, missing) ==
    <<"Adapter '", AdapterDisplayName(adapter),
      "' is missing required system components: ">>
    \o Join(missing, ", ") \o <<".">>

\* What a call gives back: a value, or the exception it raised.
Returned(v) == [ok |-> TRUE, value |-> v]
Raised(kind, message) == [ok |-> FALSE, kind |-> kind, message |-> message]

\* BootManager._validate_system_models() for the adapter in the slot.
ValidateSystemModels(adapter) ==
    IF adapter = NoAdapter THEN Returned(None)
    ELSE LET missing == Missing(adapter, 1)
         IN IF missing # <<>>
            THEN Raised("RuntimeError", MissingMessage(adapter, missing))
            ELSE Returned(None)

\* Adapter objects of every shape: with or without a name, every required
\* attribute set, None or absent.
AdapterShapes ==
    {[id |-> 1, name |-> n, attrs |-> f, model_modules |-> <<>>] :
        n \in AdapterNames \cup {NoName},
        f \in [Range(RequiredAttributes) -> AttrStates]}

\* boot._validate_system_models() is called.
DoValidateSystemModels ==
    /\ last' = [op |-> "validate", adapter |-> boot.adapter,
                result |-> ValidateSystemModels(boot.adapter)]
    /\ UNCHANGED <<hub, aggs, site, server, ready_calls, tasks,
                   boot, ext, sidebar>>

\* The variables of the hub, its site and the server, as after construction.
HubAtRest ==
    /\ hub = [app_configs |-> <<>>, started_configs |-> {}, router |-> None,
              settings |-> "s0"]
    /\ aggs = <<>>
    /\ site = NewSite("s0")
    /\ server = NewServer
    /\ ready_calls = [c \in AppConfigObjs |-> 0]
    /\ tasks = [t \in Tasks |-> IdleTask]
    /\ last = [op |-> "init"]

\* A BootManager whose slot holds an adapter of any shape, or nothing.
InitValidate ==
    /\ HubAtRest
    /\ boot \in {[adapter |-> a] : a \in AdapterShapes \cup {NoAdapter}}
    /\ ext = Unused /\ sidebar = Unused

NextValidate == DoValidateSystemModels

\* Validation of the bound adapter's required bindings.
SpecValidate == InitValidate /\ [][NextValidate]_vars

\* C11: when the bound adapter lacks a non-empty set S of the required
\* bindings, validation raises one RuntimeError whose message names the adapter
\* and holds the human label of every binding in S and of no other binding.
C11_ValidationAggregates ==
    (last.op = "validate" /\ last.adapter # NoAdapter
        /\ Lacks(last.adapter) # {}) =>
       /\ ~last.result.ok
       /\ last.result.kind = "RuntimeError"
       /\ last.adapter.name # NoName =>
             last.result.message[2] = last.adapter.name
       /\ \A i \in 1..Len(RequiredAttributes) :
             Description(RequiredAttributes[i]) \in Range(last.result.message)
                <=> RequiredAttributes[i] \in Lacks(last.adapter)

\* Validation has failed for an adapter that lacks more than one binding, the
\* first and the last of them among others.
C11_Witness ==
    /\ last.op = "validate" /\ last.adapter # NoAdapter
    /\ ~last.result.ok
    /\ {"user_model", "setting_value_type"} \subseteq Lacks(last.adapter)
    /\ "group_model" \notin Lacks(last.adapter)
    /\ last.adapter.name = "alpha"

\* ---------------------------------------------------- BootManager lifecycle
\* BootManager.init calls in one run.
MaxInits == 2
\* Startup (and shutdown) handlers one server collects.
MaxHandlers == 1

\* An adapter object with every required binding set.
CompleteAttrs == [a \in Range(RequiredAttributes) |-> "set"]

\* The adapter objects that get registered: under "alpha" an adapter with a
\* complete binding set or one that has no group model and a None
\* setting_value_type; under "beta" a complete one. The adapters of the
\* tests provide no model modules of their own.
AlphaAdapter ==
    [id |-> 1, name |-> "alpha", attrs |-> CompleteAttrs,
     model_modules |-> <<>>]
BrokenAlphaAdapter ==
    [id |-> 2, name |-> "alpha",
     attrs |-> [CompleteAttrs EXCEPT !["group_model"] = "absent",
                                     !["setting_value_type"] = "none"],
     model_modules |-> <<>>]
BetaAdapter ==
    [id |-> 3, name |-> "beta", attrs |-> CompleteAttrs,
     model_modules |-> <<>>]

\* A complete adapter that provides a model module of its own
\* (adapter.model_modules), registered under "beta".
BetaModelsAdapter ==
    [id |-> 4, name |-> "beta", attrs |-> CompleteAttrs,
     model_modules |-> <<"beta.models">>]

\* The adapter of the process-wide manager freeadmin.core.boot.admin
\* (BootManager(adapter_name="tortoise")), as its adapter property yields it.
ProcessWideAdapter ==
    [id |-> 9, name |-> "tortoise", attrs |-> CompleteAttrs,
     model_modules |-> <<>>]

\* What the AdapterRegistry can hold under a name.
Registrable(n) ==
    IF n = "alpha" THEN {NoAdapter, AlphaAdapter, BrokenAlphaAdapter}
    ELSE {NoAdapter, BetaModelsAdapter}

\* The model modules an AppConfig declares.
ConfigModules(c) ==
    IF c \in {"a1", "a2"} THEN <<"pkg.a.models">> ELSE <<"beta.models">>

\* Keys the system application registers on the site in ready().
SystemModelKeys == {"system"}

\* Package lists given to init, as the configs found under them.
BootPackages == {<<>>, <<"a1">>}

\* Mutant of AddModules: every name is appended, known or not.
RECURSIVE AddModulesNoDedup(_, _)
AddModulesNoDedup(modules, more) ==
    IF more = <<>> THEN modules
    ELSE AddModulesNoDedup(Append(modules, Head(more)), Tail(more))

\* ModelRegistrar: accumulate module names without duplication, in insertion
\* order.
RECURSIVE AddModules(_, _)
AddModules(modules, more) ==
    IF more = <<>> THEN modules
    ELSE AddModules(IF Head(more) \in Range(modules) THEN modules
                    ELSE Append(modules, Head(more)), Tail(more))

\* ModelRegistrar.add_config(config)
AddConfig(registrar, c) ==
    [registrar EXCEPT !.configs = IF c \in Range(@) THEN @ ELSE Append(@, c),
                      !.modules = AddModules(@, ConfigModules(c))]

\* ModelRegistrar.add_adapter(adapter)
AddAdapter(registrar, adapter) ==
    [registrar EXCEPT !.modules = AddModules(@, adapter.model_modules)]

\* ModelRegistrar.clear()
EmptyRegistrar == [configs |-> <<>>, modules |-> <<>>]

\* ModelRegistrar.sync_with_adapter(adapter): the adapter imports the
\* accumulated modules; importing a module twice has no further effect.
SyncWithAdapter(b, adapter) ==
    [b EXCEPT !.imported =
        @ \cup {<<adapter.id, m>> : m \in Range(b.registrar.modules)}]

\* BootManager._register_model_modules()
RegisterModelModules(b) ==
    IF b.adapter = NoAdapter THEN b
    ELSE SyncWithAdapter(
            [b EXCEPT !.registrar = AddAdapter(@, b.adapter)], b.adapter)

\* BootManager._find_adapter(name): registry.get(name). The adapter packages
\* it imports were imported when the runtime hub module was loaded.
FindAdapter(b, name) ==
    IF b.registry[name] = NoAdapter
    THEN Raised("NotFound", <<name>>)
    ELSE Returned(b.registry[name])

\* Mutant of BindDefault: the adapter found is returned but not kept.
BindDefaultNotKept(b) ==
    IF b.default_adapter_name = NoName
    THEN [boot |-> b,
          result |-> Raised("RuntimeError", <<"Admin adapter not configured">>)]
    ELSE [boot |-> b, result |-> FindAdapter(b, b.default_adapter_name)]

\* BootManager.adapter, lines 72-77: the slot is empty.
BindDefault(b) ==
    IF b.default_adapter_name = NoName
    THEN [boot |-> b,
          result |-> Raised("RuntimeError", <<"Admin adapter not configured">>)]
    ELSE LET found == FindAdapter(b, b.default_adapter_name)
         IN IF ~found.ok THEN [boot |-> b, result |-> found]
            ELSE [boot |-> RegisterModelModules(
                              [b EXCEPT !.adapter = found.value]),
                  result |-> found]

\* Mutant of AdapterProperty: looks the default name up on every read.
AdapterPropertyAlwaysDefault(b) == BindDefault(b)

\* BootManager.adapter (property)
AdapterProperty(b) ==
    IF b.adapter # NoAdapter
    THEN [boot |-> b, result |-> Returned(b.adapter)]
    ELSE BindDefault(b)

\* BootManager._ensure_adapter()
EnsureAdapter(b) ==
    IF b.adapter = NoAdapter /\ b.default_adapter_name # NoName
    THEN LET found == FindAdapter(b, b.default_adapter_name)
         IN IF ~found.ok THEN [boot |-> b, result |-> found]
            ELSE [boot |-> RegisterModelModules(
                              [b EXCEPT !.adapter = found.value]),
                  result |-> Returned(None)]
    ELSE [boot |-> b, result |-> Returned(None)]

\* BootManager.user_model (property)
UserModel(b) ==
    LET e == EnsureAdapter(b)
    IN IF ~e.result.ok THEN e
       ELSE IF e.boot.adapter = NoAdapter
            THEN [boot |-> e.boot, result |-> Returned("none")]
            ELSE [boot |-> e.boot,
                  result |-> Returned(GetAttr(e.boot.adapter, "user_model"))]

\* BootManager.model_modules (property)
ModelModules(b) ==
    LET e == EnsureAdapter(b)
    IN IF ~e.result.ok THEN e
       ELSE IF e.boot.adapter = NoAdapter
            THEN [boot |-> e.boot, result |-> Returned(<<>>)]
            ELSE [boot |-> e.boot,
                  result |-> Returned(e.boot.adapter.model_modules)]

\* Mutant of RegisterAppConfig: the config is added and nothing synchronized.
RegisterAppConfigNoSync(b, c) == [b EXCEPT !.registrar = AddConfig(@, c)]

\* BootManager.register_app_config(config)
RegisterAppConfig(b, c) ==
    LET b1 == [b EXCEPT !.registrar = AddConfig(@, c)]
    IN IF b1.adapter # NoAdapter THEN RegisterModelModules(b1) ELSE b1

\* BootManager._load_app_configs_from_packages(packages): the collector calls
\* register_app_config for every config it finds.
RECURSIVE LoadAppConfigs(_, _)
LoadAppConfigs(b, configs) ==
    IF configs = <<>> THEN b
    ELSE LoadAppConfigs(RegisterAppConfig(b, Head(configs)), Tail(configs))

\* Mutant of BootHandleSettingsUpdate: the notification also drops the
\* adapter binding.
BootHandleSettingsUpdateUnbind(b, s) ==
    [b EXCEPT !.settings = s, !.adapter = NoAdapter]

\* BootManager._handle_settings_update(settings)
BootHandleSettingsUpdate(b, s) == [b EXCEPT !.settings = s]

\* Mutant of Reset: the registrar keeps what it accumulated.
ResetKeepRegistrar(b, current) ==
    [b EXCEPT !.config = FALSE, !.adapter = NoAdapter, !.settings = current]

\* BootManager.reset(); current is what current_settings() returns, the
\* process-wide snapshot.
Reset(b, current) ==
    [b EXCEPT !.config = FALSE, !.adapter = NoAdapter,
              !.registrar = EmptyRegistrar, !.settings = current]

\* BootManager.init, lines 128-130: bind the adapter named in the call.
InitBindAdapter(b, name) ==
    IF name = NoName THEN [boot |-> b, result |-> Returned(None)]
    ELSE LET found == FindAdapter(b, name)
         IN IF ~found.ok THEN [boot |-> b, result |-> found]
            ELSE [boot |-> RegisterModelModules(
                              [b EXCEPT !.adapter = found.value]),
                  result |-> Returned(None)]

\* "from ..runtime.hub import ...": the first import of the runtime module
\* constructs the module-level hub, hub = AdminHub(), whose admin site is
\* bound to boot_admin.adapter, the adapter property of the process-wide
\* manager freeadmin.core.boot.admin. When this manager is the process-wide
\* one the read binds its default adapter lazily, and a read that raises
\* leaves the module unimported; for any other manager the hub is bound to
\* the adapter of the process-wide manager and this manager's slot is not
\* touched. The hub and its site are constructed with the settings snapshot
\* current at that moment, and the hub registers its settings observer. A
\* module that is already imported is not executed again.
ImportHub(b, st) ==
    LET constructed == [st EXCEPT !.hub.settings = b.current_settings,
                                  !.site.settings = b.current_settings,
                                  !.site.cards_settings = b.current_settings]
    IN IF b.runtime_hub # NoAdapter
       THEN [boot |-> b, st |-> st, result |-> Returned(None)]
       ELSE IF b.process_wide
       THEN LET r == AdapterProperty(b)
            IN IF ~r.result.ok THEN [boot |-> b, st |-> st, result |-> r.result]
               ELSE [boot |-> [r.boot EXCEPT !.runtime_hub = r.result.value],
                     st |-> constructed, result |-> Returned(None)]
       ELSE [boot |-> [b EXCEPT !.runtime_hub = ProcessWideAdapter],
             st |-> constructed, result |-> Returned(None)]

\* BootManager._ensure_hub(): with no cached hub the module-level hub is
\* imported and cached; later calls return the cached hub.
EnsureHub(b, st) ==
    IF b.hub THEN [boot |-> b, st |-> st, result |-> Returned(None)]
    ELSE LET r == ImportHub(b, st)
         IN IF ~r.result.ok THEN [boot |-> b, st |-> st, result |-> r.result]
            ELSE [boot |-> [r.boot EXCEPT !.hub = TRUE,
                                          !.hub_adapter = r.boot.runtime_hub],
                  st |-> r.st, result |-> Returned(None)]

\* BootManager.get_admin(target): imports admin_site from the runtime module
\* and looks the target up in its model registry; a target without a dot
\* gives None.
GetAdmin(b, st, target) ==
    LET r == ImportHub(b, st)
    IN IF ~r.result.ok THEN [boot |-> b, st |-> st, result |-> r.result]
       ELSE [boot |-> r.boot, st |-> r.st,
             result |-> Returned(IF target \in r.st.site.model_reg
                                 THEN [admin |-> target] ELSE None)]

\* BootManager.init(app, adapter=name, packages=configs): binds the named
\* adapter when one is given, loads the packages, adds the two middlewares,
\* ensures the hub, validates the bound adapter, readies the system
\* application, mounts the hub and registers the startup and shutdown hooks.
BootInit(b, st, name, configs) ==
    LET bound == InitBindAdapter(b, name)
    IN IF ~bound.result.ok THEN [boot |-> b, st |-> st, result |-> bound.result]
       ELSE
         LET b2 == LoadAppConfigs(bound.boot, configs)
             ensured == EnsureHub([b2 EXCEPT !.app.middleware = @ + 2], st)
             b3 == ensured.boot
             valid == ValidateSystemModels(b3.adapter)
         IN IF ~ensured.result.ok
            THEN [boot |-> b3, st |-> st, result |-> ensured.result]
            ELSE IF ~valid.ok
            THEN [boot |-> b3, st |-> ensured.st, result |-> valid]
            ELSE [boot |-> [b3 EXCEPT !.system_app = TRUE,
                                      !.app.on_startup = @ + 2,
                                      !.app.on_shutdown = @ + 1],
                  st |-> InitApp(SiteRegister(ensured.st, SystemModelKeys),
                                 configs # <<>>, configs),
                  result |-> Returned(None)]

\* BootManager(adapter_name=default): nothing bound, nothing registered.
\* process_wide tells whether the manager is freeadmin.core.boot.admin,
\* runtime_hub is the adapter of the module-level hub's site (NoAdapter
\* while the runtime module is not imported) and current_settings is the
\* process-wide settings snapshot.
NewBootManager(registry, default) ==
    [registry |-> registry,
     default_adapter_name |-> default,
     process_wide |-> FALSE,
     runtime_hub |-> NoAdapter,
     current_settings |-> "s0",
     adapter |-> NoAdapter,
     registrar |-> EmptyRegistrar,
     imported |-> {},
     config |-> FALSE,
     hub |-> FALSE,
     hub_adapter |-> NoAdapter,
     system_app |-> FALSE,
     settings |-> "s0",
     app |-> [middleware |-> 0, on_startup |-> 0, on_shutdown |-> 0],
     inits |-> 0]

\* boot.init(app, adapter=name, packages=...)
DoBootInit ==
    \E name \in AdapterNames \cup {NoName}, configs \in BootPackages :
        LET r == BootInit(boot, St, name, configs)
        IN /\ boot.inits < MaxInits
           /\ WithinBounds(r.st, ready_calls)
           /\ boot' = [r.boot EXCEPT !.inits = @ + 1]
           /\ hub' = r.st.hub /\ aggs' = r.st.aggs
           /\ site' = r.st.site /\ server' = r.st.server
           /\ last' = [op |-> "boot_init", adapter |-> name, result |-> r.result]
           /\ UNCHANGED <<ready_calls, tasks, ext, sidebar>>

\* The call read a property of the BootManager.
ReadProperty(op, r) ==
    /\ boot' = r.boot
    /\ last' = [op |-> op, result |-> r.result,
                was_bound |-> boot.adapter # NoAdapter]
    /\ UNCHANGED <<hub, aggs, site, server, ready_calls, tasks, ext, sidebar>>

\* boot.adapter
DoReadAdapter == ReadProperty("read_adapter", AdapterProperty(boot))

\* boot.user_model
DoReadUserModel == ReadProperty("read_user_model", UserModel(boot))

\* boot.model_modules
DoReadModelModules == ReadProperty("read_model_modules", ModelModules(boot))

\* boot.register_app_config(config)
DoRegisterAppConfig ==
    \E c \in {"a1"} :
        ReadProperty("register_app_config",
                     [boot |-> RegisterAppConfig(boot, c),
                      result |-> Returned(None)])

\* boot._handle_settings_update(s), the callback alone.
DoBootSettingsUpdate ==
    \E s \in SettingsSnapshots :
        ReadProperty("boot_settings_update",
                     [boot |-> BootHandleSettingsUpdate(boot, s),
                      result |-> Returned(None)])

\* configure(s): the snapshot is stored and every registered observer is
\* notified: the BootManager's and, once the runtime module is imported, the
\* module-level hub's.
DoConfigure ==
    \E s \in SettingsSnapshots :
        LET st == IF boot.runtime_hub # NoAdapter
                  THEN HandleSettingsUpdate(St, s) ELSE St
        IN /\ boot' = BootHandleSettingsUpdate(
                         [boot EXCEPT !.current_settings = s], s)
           /\ hub' = st.hub /\ aggs' = st.aggs
           /\ site' = st.site /\ server' = st.server
           /\ last' = [op |-> "configure", result |-> Returned(None),
                       was_bound |-> boot.adapter # NoAdapter]
           /\ UNCHANGED <<ready_calls, tasks, ext, sidebar>>

\* boot.reset()
DoReset ==
    ReadProperty("reset", [boot |-> Reset(boot, boot.current_settings),
                           result |-> Returned(None)])

\* boot.get_admin(target)
DoGetAdmin ==
    \E target \in SystemModelKeys \cup {"nodot"} :
        LET r == GetAdmin(boot, St, target)
        IN /\ boot' = r.boot
           /\ hub' = r.st.hub /\ aggs' = r.st.aggs
           /\ site' = r.st.site /\ server' = r.st.server
           /\ last' = [op |-> "get_admin", result |-> r.result,
                       was_bound |-> boot.adapter # NoAdapter]
           /\ UNCHANGED <<ready_calls, tasks, ext, sidebar>>

\* boot.load_app_config(module_path): the loaded config is registered and
\* returned.
DoLoadAppConfig ==
    \E c \in {"a1"} :
        ReadProperty("load_app_config",
                     [boot |-> RegisterAppConfig(boot, c),
                      result |-> Returned([config |-> c])])

\* boot.register_startup(app): one startup handler is added.
DoRegisterStartup ==
    /\ boot.app.on_startup < MaxHandlers
    /\ ReadProperty("register_startup",
                    [boot |-> [boot EXCEPT !.app.on_startup = @ + 1],
                     result |-> Returned(None)])

\* boot.register_shutdown(app): one shutdown handler is added.
DoRegisterShutdown ==
    /\ boot.app.on_shutdown < MaxHandlers
    /\ ReadProperty("register_shutdown",
                    [boot |-> [boot EXCEPT !.app.on_shutdown = @ + 1],
                     result |-> Returned(None)])

\* The registries a process can have: each name unregistered or holding one
\* of its registrable adapters.
Registries ==
    {f \in [AdapterNames -> UNION {Registrable(n) : n \in AdapterNames}] :
        \A n \in AdapterNames : f[n] \in Registrable(n)}

\* BootManager(adapter_name=..., settings=...) with or without a default
\* name, with the current snapshot or an explicit settings object, over a
\* registry that holds any of the registrable adapters; the manager is the
\* process-wide one or another.
InitBootManager ==
    /\ HubAtRest
    /\ boot \in {[NewBootManager(registry, default)
                        EXCEPT !.process_wide = process_wide,
                               !.settings = settings] :
                    registry \in Registries,
                    default \in AdapterNames \cup {NoName},
                    process_wide \in BOOLEAN,
                    settings \in SettingsSnapshots}
    /\ ext = Unused /\ sidebar = Unused

NextBootManager ==
    \/ DoBootInit
    \/ DoReadAdapter
    \/ DoReadUserModel
    \/ DoReadModelModules
    \/ DoRegisterAppConfig
    \/ DoBootSettingsUpdate
    \/ DoReset
    \/ DoGetAdmin
    \/ DoLoadAppConfig

\* One BootManager: init, property reads, admin lookups, config registration,
\* settings notifications and reset.
SpecBootManager == InitBootManager /\ [][NextBootManager]_vars

NextBootHooks ==
    \/ DoBootInit
    \/ DoRegisterStartup
    \/ DoRegisterShutdown
    \/ DoBootSettingsUpdate
    \/ DoReset

\* One BootManager and the handlers its server collects: init, the two hook
\* registrations, settings notifications and reset.
SpecBootHooks == InitBootManager /\ [][NextBootHooks]_vars

NextConfigure ==
    \/ DoBootInit
    \/ DoConfigure
    \/ DoBootSettingsUpdate
    \/ DoReset

\* One BootManager in a process that is reconfigured: init, configure(), the
\* manager's settings callback and reset.
SpecConfigure == InitBootManager /\ [][NextConfigure]_vars

\* Calls that are neither init nor reset.
BetweenCalls ==
    {"read_adapter", "read_user_model", "read_model_modules",
     "register_app_config", "boot_settings_update", "configure", "get_admin",
     "load_app_config"}

\* C12: an init(adapter=A) that returns normally leaves the adapter registered
\* under A in the slot (and, A's bindings being complete, it does return
\* normally); register_app_config, settings notifications and reads of
\* adapter, user_model and model_modules leave a bound adapter in the slot,
\* and a read of the adapter property returns that same instance.
C12_AdapterStable ==
    [][/\ (last'.op = "boot_init" /\ last'.adapter # NoName) =>
             /\ last'.result.ok => boot'.adapter = boot.registry[last'.adapter]
             /\ (boot.registry[last'.adapter] # NoAdapter
                   /\ Lacks(boot.registry[last'.adapter]) = {})
                => last'.result.ok
       /\ (last'.op \in BetweenCalls /\ boot.adapter # NoAdapter) =>
             /\ boot'.adapter = boot.adapter
             /\ last'.op = "read_adapter" =>
                   last'.result = Returned(boot.adapter)]_vars

\* The adapter bound by init(adapter="alpha") is read back, the default name
\* being "beta" and registered, after a config was registered and the
\* settings changed.
C12_Witness ==
    /\ last.op = "read_adapter" /\ last.was_bound
    /\ last.result.ok /\ last.result.value = AlphaAdapter
    /\ boot.default_adapter_name = "beta"
    /\ boot.registry["beta"] = BetaModelsAdapter
    /\ boot.inits >= 1
    /\ boot.registrar.configs # <<>>
    /\ boot.settings = "s1"

\* C13: a read of the adapter property with an empty slot binds the adapter
\* registered under the default name, keeps it in the slot and synchronizes
\* the model modules with it; with no default name it raises a RuntimeError
\* and the slot stays empty (as it does when the lookup of the name fails).
C13_LazyDefault ==
    [][(last'.op = "read_adapter" /\ boot.adapter = NoAdapter) =>
         /\ boot.default_adapter_name = NoName =>
               /\ ~last'.result.ok /\ last'.result.kind = "RuntimeError"
               /\ boot' = boot
         /\ (boot.default_adapter_name # NoName
               /\ boot.registry[boot.default_adapter_name] = NoAdapter) =>
               /\ ~last'.result.ok
               /\ boot' = boot
         /\ (boot.default_adapter_name # NoName
               /\ boot.registry[boot.default_adapter_name] # NoAdapter) =>
               LET found == boot.registry[boot.default_adapter_name]
               IN /\ last'.result = Returned(found)
                  /\ boot'.adapter = found
                  /\ Range(found.model_modules) \subseteq
                        Range(boot'.registrar.modules)
                  /\ Range(boot.registrar.modules) \subseteq
                        Range(boot'.registrar.modules)
                  /\ \A m \in Range(boot'.registrar.modules) :
                        <<found.id, m>> \in boot'.imported]_vars

\* The adapter property was read with an empty slot and bound the default
\* adapter, whose own module and the module of a config registered before
\* were imported.
C13_Witness ==
    /\ last.op = "read_adapter" /\ ~last.was_bound
    /\ last.result.ok /\ last.result.value = BetaModelsAdapter
    /\ boot.adapter = BetaModelsAdapter
    /\ <<BetaModelsAdapter.id, "pkg.a.models">> \in boot.imported
    /\ <<BetaModelsAdapter.id, "beta.models">> \in boot.imported

\* ----------------------------------------------------- AdminHub construction
\* AdminHub objects constructed in one run.
MaxHubs == 2

\* AdminHub._select_adapter(adapter=..., boot_manager=...): `given` tells
\* whether a boot manager was passed, bm is that manager and admin the
\* process-wide one (freeadmin.core.boot.admin). Reading a manager's adapter
\* property may bind its default adapter.
SelectAdapter(adapter, given, bm, admin) ==
    IF given
    THEN LET r == AdapterProperty(bm)
         IN [bm |-> r.boot, admin |-> admin, result |-> r.result]
    ELSE IF adapter # NoAdapter
    THEN [bm |-> bm, admin |-> admin, result |-> Returned(adapter)]
    ELSE LET r == AdapterProperty(admin)
         IN [bm |-> bm, admin |-> r.boot, result |-> r.result]

\* AdminHub(adapter=..., boot_manager=...): a site bound to the selected
\* adapter, empty tables, no router wrapper.
NewHub(selected) ==
    [adapter |-> selected, model_reg |-> {}, app_configs |-> <<>>,
     started_configs |-> {}]

\* AdminHub(adapter=adapter, boot_manager=bm if given else None)
DoConstructHub ==
    \E adapter \in {NoAdapter, AlphaAdapter, BetaAdapter}, given \in BOOLEAN :
        LET r == SelectAdapter(adapter, given, boot.bm, boot.admin)
        IN /\ Len(boot.hubs) < MaxHubs
           /\ boot' = [bm |-> r.bm, admin |-> r.admin,
                       hubs |-> IF r.result.ok
                                THEN Append(boot.hubs, NewHub(r.result.value))
                                ELSE boot.hubs]
           /\ last' = [op |-> "construct", adapter |-> adapter,
                       given |-> given, result |-> r.result]
           /\ UNCHANGED <<hub, aggs, site, server, ready_calls, tasks,
                          ext, sidebar>>

\* A boot manager with any default name (or none), the process-wide manager
\* with a default name, no hub constructed yet.
InitConstruct ==
    /\ HubAtRest
    /\ boot \in {[bm |-> NewBootManager(registry, d1),
                  admin |-> NewBootManager(registry, d2),
                  hubs |-> <<>>] :
                    registry \in Registries,
                    d1 \in AdapterNames \cup {NoName}, d2 \in AdapterNames}
    /\ ext = Unused /\ sidebar = Unused

NextConstruct == DoConstructHub

\* Construction of AdminHub objects from an adapter argument, a boot manager
\* argument and the process-wide default.
SpecConstruct == InitConstruct /\ [][NextConstruct]_vars

\* C14: a hub constructed with an explicit adapter argument has its site bound
\* to that adapter, whether or not a boot manager was passed as well
\* (priority explicit adapter > boot manager > process-wide default).
C14_ExplicitAdapterFirst ==
    (last.op = "construct" /\ last.adapter # NoAdapter) =>
        /\ last.result = Returned(last.adapter)
        /\ boot.hubs[Len(boot.hubs)].adapter = last.adapter

\* ------------------------------------------------------ multi-adapter boots
\* (src/tests/test_boot_manager_multi_adapter_integration.py, BootHarness)
\* BootHarness.run calls in one run.
MaxRuns == 2

\* Package lists given to BootHarness.run, as the configs found under them.
HarnessPackages == {<<>>, <<"a1">>, <<"b1", "a1">>}

\* A hub with its site's adapter, the entries of the site's model registry
\* (key, adapter the bound admin holds, hub through whose boot it was
\* registered) and the hub's tables, site, router wrappers and server.
NewBootedHub(selected) ==
    [adapter |-> selected,
     entries |-> {},
     st |-> [hub |-> [app_configs |-> <<>>, started_configs |-> {},
                      router |-> None, settings |-> "s0"],
             aggs |-> <<>>, site |-> NewSite("s0"), server |-> NewServer]]

\* AdminSite.register(...) on the site of hub record h for every key: the
\* bound admin is created with the site's adapter; an entry under the same
\* key is replaced.
RegisterEntries(h, keys, via) ==
    [h EXCEPT !.entries = {e \in @ : e.key \notin keys}
                  \cup {[key |-> k, adapter |-> h.adapter.id, via |-> via] :
                            k \in keys},
              !.st = SiteRegister(@, keys)]

\* BootHarness.run, lines 279-326: the runtime module is taken out of
\* sys.modules and imported afresh (its own hub is bound to the adapter of
\* the process-wide manager), a BootManager with the harness's adapter name
\* is created, and a hub constructed from it replaces the hub and admin_site
\* of the fresh module.
HarnessBegin(b, name) ==
    LET own == SelectAdapter(NoAdapter, FALSE, b.admin, b.admin)
        bm0 == NewBootManager(b.admin.registry, name)
        read == AdapterProperty(bm0)
        sel == SelectAdapter(read.result.value, TRUE, read.boot, own.admin)
        n == Len(b.hubs)
    IN [b EXCEPT !.admin = own.admin,
                 !.hubs = @ \o <<NewBootedHub(own.result.value),
                                 NewBootedHub(sel.result.value)>>,
                 !.runtime_hub = n + 2,
                 !.run = [pc |-> "constructed", name |-> name, bm |-> sel.bm,
                          hub |-> n + 2, original |-> n + 1,
                          previous |-> b.runtime_hub]]

\* The _ensure_hub the harness installs (lines 306-324) for an existing
\* module-level hub: the manager adopts the hub's adapter when it has none
\* and refuses a hub bound to another adapter.
HarnessEnsureHub(b) ==
    LET existing == b.hubs[b.runtime_hub].adapter
    IN IF b.run.bm.adapter = NoAdapter
       THEN [boot |-> [b EXCEPT !.run.bm.adapter = existing,
                                !.run.bm.hub = TRUE,
                                !.run.bm.hub_adapter = existing],
             result |-> Returned(b.runtime_hub)]
       ELSE IF existing # b.run.bm.adapter
       THEN [boot |-> b,
             result |-> Raised("RuntimeError",
                 <<"Admin hub already initialized with a different adapter">>)]
       ELSE [boot |-> [b EXCEPT !.run.bm.hub = TRUE,
                                !.run.bm.hub_adapter = existing],
             result |-> Returned(b.runtime_hub)]

\* boot.init(app, packages=packages) in the harness (line 328): no adapter
\* argument; the configs are registered with the manager, the middleware is
\* added, the hub is the module-level one, the adapter is validated, the
\* system app registers its admins on the hub's site, and the hub discovers
\* the configs and mounts on the app.
HarnessInit(b, configs) ==
    LET b1 == [b EXCEPT !.run.bm = [LoadAppConfigs(@, configs) EXCEPT
                                        !.app.middleware = @ + 2]]
        ensured == HarnessEnsureHub(b1)
        b2 == ensured.boot
        h == ensured.result.value
        valid == ValidateSystemModels(b2.run.bm.adapter)
    IN IF ~ensured.result.ok THEN [boot |-> b1, result |-> ensured.result]
       ELSE IF ~valid.ok THEN [boot |-> b2, result |-> valid]
       ELSE LET withsys == RegisterEntries(b2.hubs[h], SystemModelKeys, h)
                mounted == [withsys EXCEPT
                               !.st = InitApp(@, configs # <<>>, configs)]
            IN [boot |-> [b2 EXCEPT !.hubs[h] = mounted,
                                    !.run.bm.system_app = TRUE,
                                    !.run.bm.app.on_startup = @ + 2,
                                    !.run.bm.app.on_shutdown = @ + 1,
                                    !.run.pc = "initialized"],
                result |-> Returned(None)]

\* Mutant of HookSite: the hook registers on the first harness hub's site.
HookSiteFirst(b) == 2

\* runtime_hub.admin_site as the startup hook of a config reads it
\* (tests/multiadapterapp/app.py 45-46): the module-level site of the moment.
HookSite(b) == b.runtime_hub

\* hub.start_app_configs() for hub h with hooks that return without
\* suspending: every pending config of the table, from item i on, registers
\* its admins on the module-level site and is marked started.
RECURSIVE RunHooks(_, _, _)
RunHooks(b, h, i) ==
    LET table == Items(b.hubs[h].st.hub.app_configs)
    IN IF i > Len(table) THEN b
       ELSE IF import_path(table[i]) \in b.hubs[h].st.hub.started_configs
       THEN RunHooks(b, h, i + 1)
       ELSE LET s == HookSite(b)
                b1 == [b EXCEPT !.hubs[s] =
                          RegisterEntries(@, HookRegisters(table[i]), h)]
                b2 == [b1 EXCEPT !.hubs[h].st.hub.started_configs =
                          StartedAfterReturn(@, table[i])]
            IN RunHooks(b2, h, i + 1)

\* await app.router.startup() in the harness (line 329): the handlers that
\* init registered run in order, _finalize_admin_site (the config hooks) and
\* _load_system_config (manager.py 166-170), which sets the manager's
\* system configuration.
HarnessStartup(b) ==
    [RunHooks(b, b.run.hub, 1) EXCEPT !.run.pc = "started",
                                      !.run.bm.config = TRUE]

\* BootHarness.run, lines 330-347: the module-level site is what the run
\* returns; the manager is reset, the fresh module gets its original hub
\* back and the module that was in sys.modules before the run is put back.
HarnessFinish(b) ==
    [b EXCEPT !.returned = Append(@, [site |-> b.runtime_hub,
                                      name |-> b.run.name]),
              !.run = [pc |-> "idle"],
              !.runtime_hub = b.run.previous]

\* harness = BootHarness(name); harness.run(packages) begins
DoHarnessBegin ==
    \E name \in AdapterNames :
        /\ boot.run.pc = "idle"
        /\ Len(boot.returned) < MaxRuns
        /\ boot' = HarnessBegin(boot, name)
        /\ last' = [op |-> "harness_begin", name |-> name]
        /\ UNCHANGED <<hub, aggs, site, server, ready_calls, tasks,
                       ext, sidebar>>

\* boot.init(app, packages=packages) of the run
DoHarnessInit ==
    \E configs \in HarnessPackages :
        LET r == HarnessInit(boot, configs)
        IN /\ boot.run.pc = "constructed"
           /\ r.result.ok
           /\ boot' = r.boot
           /\ last' = [op |-> "harness_init", configs |-> configs]
           /\ UNCHANGED <<hub, aggs, site, server, ready_calls, tasks,
                          ext, sidebar>>

\* await app.router.startup() of the run: every config of the hub's table
\* that is not started has its hook invoked, and the hook counts the call
\* (tests/multiadapterapp/app.py 44); the config objects outlive the run.
DoHarnessStartup ==
    /\ boot.run.pc = "initialized"
    /\ LET h == boot.hubs[boot.run.hub].st.hub
           table == Items(h.app_configs)
           invoked == {table[i] : i \in {j \in 1..Len(table) :
                          import_path(table[j]) \notin h.started_configs}}
       IN ready_calls' = [c \in AppConfigObjs |->
                             IF c \in invoked THEN ready_calls[c] + 1
                             ELSE ready_calls[c]]
    /\ boot' = HarnessStartup(boot)
    /\ last' = [op |-> "harness_startup"]
    /\ UNCHANGED <<hub, aggs, site, server, tasks, ext, sidebar>>

\* The run returns its site.
DoHarnessFinish ==
    /\ boot.run.pc = "started"
    /\ boot' = HarnessFinish(boot)
    /\ last' = [op |-> "harness_finish"]
    /\ UNCHANGED <<hub, aggs, site, server, ready_calls, tasks, ext, sidebar>>

\* Adapters A and B registered under "alpha" and "beta"; the test module
\* has imported the runtime module (line 28), so the process-wide manager,
\* whose default name is "tortoise", is bound and the module in sys.modules
\* holds a hub bound to its adapter (imported_hub, hub 0); no harness has
\* run.
InitHarness ==
    /\ HubAtRest
    /\ boot = [admin |-> RegisterModelModules(
                   [NewBootManager(
                       [n \in AdapterNames |->
                           IF n = "alpha" THEN AlphaAdapter ELSE BetaAdapter],
                       "tortoise")
                    EXCEPT !.process_wide = TRUE,
                           !.adapter = ProcessWideAdapter,
                           !.runtime_hub = ProcessWideAdapter]),
               imported_hub |-> NewBootedHub(ProcessWideAdapter),
               hubs |-> <<>>, runtime_hub |-> 0,
               run |-> [pc |-> "idle"], returned |-> <<>>]
    /\ ext = Unused /\ sidebar = Unused

NextHarness ==
    \/ DoHarnessBegin
    \/ DoHarnessInit
    \/ DoHarnessStartup
    \/ DoHarnessFinish

\* Boots of hubs with different adapters, one after another, each through a
\* BootHarness.
SpecHarness == InitHarness /\ [][NextHarness]_vars

\* C15: every site a harness run returned is bound to the adapter registered
\* under the run's name, every entry of its model registry holds that adapter
\* and was registered through that run's hub, however many boots with other
\* adapters followed.
C15_AdapterIsolation ==
    \A i \in 1..Len(boot.returned) :
        LET r == boot.returned[i]
            h == boot.hubs[r.site]
        IN /\ h.adapter = boot.admin.registry[r.name]
           /\ \A e \in h.entries :
                 /\ e.adapter = boot.admin.registry[r.name].id
                 /\ e.via = r.site
           /\ {e.key : e \in h.entries} = h.st.site.model_reg

\* A boot with "alpha" and then a boot with "beta" have returned their sites,
\* each holding the system entry and the entry its config's hook registered.
C15_Witness ==
    /\ Len(boot.returned) = 2
    /\ boot.returned[1].name = "alpha" /\ boot.returned[2].name = "beta"
    /\ \A i \in 1..2 :
          {e.key : e \in boot.hubs[boot.returned[i].site].entries}
             = {"system", "m1"}

\* ------------------------------------------------ ExtendedRouterAggregator
\* (freeadmin/core/network/router, not part of src/: modelled from spec.md
\* section 4.5 and src/tests/test_router_aggregator.py)
\* Additional (public) routers registered on one aggregator.
MaxPublicRouters == 2

\* Public router objects and the prefixes they can be registered under.
PublicRouters == {[public |-> "p1"], [public |-> "p2"], [public |-> "p3"]}
RouterPrefixes == {"", "/extras"}

\* The prefix the admin router is mounted under.
AdminPrefix == "/admin"

\* ExtendedRouterAggregator(site=site, prefix="/admin", public_first=flag)
NewExtended(flag) == [public_first |-> flag, additional |-> <<>>]

\* aggregator.add_additional_router(router, prefix)
AddAdditionalRouter(e, router, prefix) ==
    [e EXCEPT !.additional = Append(@, [router |-> router, prefix |-> prefix])]

\* Mutant of GetRouters: the admin router always comes first.
GetRoutersAdminFirst(e, admin_router) ==
    <<[router |-> admin_router, prefix |-> AdminPrefix]>> \o e.additional

\* aggregator.get_routers(): the (router, prefix) pairs in mounting order.
GetRouters(e, admin_router) ==
    IF e.public_first
    THEN e.additional \o <<[router |-> admin_router, prefix |-> AdminPrefix]>>
    ELSE <<[router |-> admin_router, prefix |-> AdminPrefix]>> \o e.additional

\* aggregator.add_additional_router(router, prefix) with a router not yet
\* registered.
DoAddAdditionalRouter ==
    \E router \in PublicRouters, prefix \in RouterPrefixes :
        /\ Len(ext.additional) < MaxPublicRouters
        /\ \A i \in 1..Len(ext.additional) : ext.additional[i].router # router
        /\ ext' = AddAdditionalRouter(ext, router, prefix)
        /\ last' = [op |-> "add_additional_router"]
        /\ UNCHANGED <<hub, aggs, site, server, ready_calls, tasks,
                       boot, sidebar>>

\* aggregator.get_routers(): the admin router is the aggregator's cached
\* one, built on first need.
DoGetRouters ==
    LET st == GetAdminRouter(St, 1)
    IN /\ WithinBounds(st, ready_calls)
       /\ hub' = st.hub /\ aggs' = st.aggs
       /\ site' = st.site /\ server' = st.server
       /\ last' = [op |-> "get_routers",
                   routers |-> GetRouters(ext, st.aggs[1].admin_router)]
       /\ UNCHANGED <<ready_calls, tasks, boot, ext, sidebar>>

\* An extended aggregator with either value of the flag, nothing registered.
InitExtended ==
    /\ hub = [app_configs |-> <<>>, started_configs |-> {}, router |-> None,
              settings |-> "s0"]
    /\ aggs = <<NewAggregator("s0")>>
    /\ site = NewSite("s0")
    /\ server = NewServer
    /\ ready_calls = [c \in AppConfigObjs |-> 0]
    /\ tasks = [t \in Tasks |-> IdleTask]
    /\ last = [op |-> "init"]
    /\ boot = Unused /\ sidebar = Unused
    /\ ext \in {NewExtended(flag) : flag \in BOOLEAN}

NextExtended ==
    \/ DoAddAdditionalRouter
    \/ DoGetRouters

\* One ExtendedRouterAggregator: registration of public routers and reads of
\* the composition list.
SpecExtended == InitExtended /\ [][NextExtended]_vars

\* C16: in the list get_routers() returns, the admin router, under the admin
\* prefix, is the last element when public_first is true and the first when
\* it is false, and the other elements are the public routers in their
\* registration order.
C16_RouterOrder ==
    last.op = "get_routers" =>
        LET q == last.routers
            n == Len(ext.additional)
            admin == [router |-> aggs[1].admin_router, prefix |-> AdminPrefix]
        IN /\ Len(q) = n + 1
           /\ aggs[1].admin_router # NoRouter
           /\ ext.public_first =>
                 /\ q[n + 1] = admin
                 /\ \A i \in 1..n : q[i] = ext.additional[i]
           /\ ~ext.public_first =>
                 /\ q[1] = admin
                 /\ \A i \in 1..n : q[i + 1] = ext.additional[i]

\* get_routers() returned two public routers, in registration order, before
\* the admin router.
C16_Witness ==
    /\ last.op = "get_routers"
    /\ ext.public_first
    /\ Len(last.routers) = 3
    /\ last.routers[1].router = [public |-> "p2"]
    /\ last.routers[2].router = [public |-> "p1"]
    /\ last.routers[3].prefix = AdminPrefix

\* ------------------------------------------------------------ SidebarBuilder
\* (src/freeadmin/core/interface/sidebar.py)
\* A path or prefix string is the sequence of its pieces: the token "/" for
\* every slash, and one token for every maximal run of other characters.
Slash == "/"

\* str.lower() on the pieces that occur.
Lower(s) ==
    CASE s = "Views" -> "views"
      [] s = "Demo"  -> "demo"
      [] s = "List"  -> "list"
      [] s = "Core"  -> "core"
      [] s = "Demo List" -> "demo list"
      [] s = "Demo Config" -> "demo config"
      [] s = "Adapters" -> "adapters"
      [] s = "Systemsetting" -> "systemsetting"
      [] s = "User Profile" -> "user profile"
      [] s = "Settings" -> "settings"
      [] s = "ORM" -> "orm"
      [] OTHER -> s

\* s.rstrip("/")
RECURSIVE RStrip(_)
RStrip(p) ==
    IF p # <<>> /\ p[Len(p)] = Slash THEN RStrip(SubSeq(p, 1, Len(p) - 1))
    ELSE p

\* s.lstrip("/")
RECURSIVE LStrip(_)
LStrip(p) == IF p # <<>> /\ Head(p) = Slash THEN LStrip(Tail(p)) ELSE p

\* s.strip("/")
Strip(p) == LStrip(RStrip(p))

\* SidebarBuilder._normalize_prefix(prefix)
NormalizePrefix(prefix) ==
    LET cleaned == IF prefix # <<>> /\ Head(prefix) = Slash
                   THEN prefix ELSE <<Slash>> \o prefix
    IN IF RStrip(cleaned) = <<>> THEN <<Slash>> ELSE RStrip(cleaned)

\* [segment for segment in s.split("/") if segment]: the pieces between the
\* slashes, the empty ones dropped.
RECURSIVE SplitNonEmpty(_)
SplitNonEmpty(p) ==
    IF p = <<>> THEN <<>>
    ELSE IF Head(p) = Slash THEN SplitNonEmpty(Tail(p))
    ELSE <<Head(p)>> \o SplitNonEmpty(Tail(p))

\* [segment.lower() for segment in s.strip("/").split("/") if segment]
LowerSegments(p) ==
    LET segments == SplitNonEmpty(Strip(p))
    IN [i \in 1..Len(segments) |-> Lower(segments[i])]

\* SidebarBuilder._split_prefix(prefix)
SplitPrefix(prefix) == LowerSegments(prefix)

\* The result of _match_prefix_slug: None, or a slug.
NoSlug == [matched |-> FALSE, slug |-> ""]
Slug(s) == [matched |-> TRUE, slug |-> s]

\* Mutant of MatchPrefixSlug: always the first trailing segment.
MatchPrefixSlugFirst(path_segments, prefix_segments) ==
    IF prefix_segments = <<>> THEN NoSlug
    ELSE IF Len(path_segments) < Len(prefix_segments)
            \/ SubSeq(path_segments, 1, Len(prefix_segments)) # prefix_segments
    THEN NoSlug
    ELSE LET trimmed == SubSeq(path_segments, Len(prefix_segments) + 1,
                               Len(path_segments))
         IN IF trimmed = <<>> THEN NoSlug ELSE Slug(trimmed[1])

\* SidebarBuilder._match_prefix_slug(path_segments, prefix_segments)
MatchPrefixSlug(path_segments, prefix_segments) ==
    IF prefix_segments = <<>> THEN NoSlug
    ELSE IF SubSeq(path_segments, 1,
                   IF Len(prefix_segments) < Len(path_segments)
                   THEN Len(prefix_segments) ELSE Len(path_segments))
            # prefix_segments
    THEN NoSlug
    ELSE LET trimmed == SubSeq(path_segments, Len(prefix_segments) + 1,
                               Len(path_segments))
         IN IF trimmed = <<>> THEN NoSlug
            ELSE IF Len(trimmed) >= 2 THEN Slug(trimmed[2])
            ELSE Slug(trimmed[1])

\* Python's `a or b` on results of _match_prefix_slug.
OrElse(a, b) == IF a.matched /\ a.slug # "" THEN a ELSE b

\* The empty string as a path. A model_name is likewise the sequence of its
\* pieces: one segment, or the joined segments with "_" between them.
EmptyPath == <<>>

\* Mutant of SynchronizeViewModelName: the ORM prefix is tried first.
SynchronizeViewModelNameOrmFirst(entry, views_segments, orm_segments, settings_segments) ==
    IF entry.path = EmptyPath THEN entry
    ELSE LET path_segments == LowerSegments(NormalizePrefix(entry.path))
             slug == OrElse(MatchPrefixSlug(path_segments, orm_segments),
                     OrElse(MatchPrefixSlug(path_segments, views_segments),
                            MatchPrefixSlug(path_segments, settings_segments)))
         IN IF path_segments = <<>> THEN entry
            ELSE IF ~slug.matched
            THEN [entry EXCEPT !.model_name = Join(path_segments, "_")]
            ELSE [entry EXCEPT !.model_name = <<slug.slug>>]

\* SidebarBuilder._synchronize_view_model_name(entry, views_segments=...,
\* orm_segments=..., settings_segments=...)
SynchronizeViewModelName(entry, views_segments, orm_segments, settings_segments) ==
    IF entry.path = EmptyPath THEN entry
    ELSE LET path_segments == LowerSegments(NormalizePrefix(entry.path))
             slug == OrElse(MatchPrefixSlug(path_segments, views_segments),
                     OrElse(MatchPrefixSlug(path_segments, orm_segments),
                            MatchPrefixSlug(path_segments, settings_segments)))
         IN IF path_segments = <<>> THEN entry
            ELSE IF ~slug.matched
            THEN [entry EXCEPT !.model_name = Join(path_segments, "_")]
            ELSE [entry EXCEPT !.model_name = <<slug.slug>>]

\* Paths views are registered under.
ViewPaths ==
    {<<Slash, "views">>,
     <<Slash, "views", Slash, "demo", Slash, "list">>,
     <<Slash, "views", Slash, "demo">>,
     <<Slash, "Views", Slash, "Demo", Slash, "List">>,
     <<Slash, "orm", Slash, "app", Slash, "model">>,
     <<Slash, "settings", Slash, "demo", Slash, "config">>,
     <<Slash, "settings">>,
     <<Slash, "reports", Slash, "daily">>,
     <<Slash>>,
     <<"views", Slash, "demo", Slash, "list", Slash>>,
     <<Slash, "views", Slash, "orm", Slash, "core", Slash, "item">>,
     <<Slash, "views", Slash, "a", Slash, "b", Slash, "c">>,
     <<Slash, "views", Slash, "orm">>,
     <<Slash, Slash, "views", Slash, Slash, "demo">>,
     EmptyPath}

\* Values of the views, ORM and settings prefixes in the system
\* configuration: the defaults; an ORM prefix that extends the views prefix,
\* and the reverse; a views prefix "/" and a settings prefix written
\* "settings/"; a views prefix in upper case; a settings prefix that extends
\* the ORM prefix.
PrefixConfigs ==
    {[views |-> <<Slash, "views">>, orm |-> <<Slash, "orm">>,
      settings |-> <<Slash, "settings">>],
     [views |-> <<Slash, "views">>, orm |-> <<Slash, "views", Slash, "orm">>,
      settings |-> <<Slash, "settings">>],
     [views |-> <<Slash, "views", Slash, "orm">>, orm |-> <<Slash, "views">>,
      settings |-> <<Slash, "settings">>],
     [views |-> <<Slash>>, orm |-> <<Slash, "orm">>,
      settings |-> <<"settings", Slash>>],
     [views |-> <<Slash, "Views">>, orm |-> <<Slash, "orm">>,
      settings |-> <<Slash, "settings">>],
     [views |-> <<Slash, "reports">>, orm |-> <<Slash, "views">>,
      settings |-> <<Slash, "views", Slash, "orm">>]}

\* The segments of the three prefixes as build() computes them.
PrefixSegments(prefixes) ==
    [views    |-> SplitPrefix(NormalizePrefix(prefixes.views)),
     orm      |-> SplitPrefix(NormalizePrefix(prefixes.orm)),
     settings |-> SplitPrefix(NormalizePrefix(prefixes.settings))]

\* The model_name a view entry carries when the pages collaborator hands it
\* over.
InitialModelNames == {<<"initial">>, <<>>}

\* cls._synchronize_view_model_name(entry, ...) on the entry at hand.
DoSynchronizeViewModelName ==
    LET segs == PrefixSegments(sidebar.prefixes)
    IN /\ sidebar' = [sidebar EXCEPT !.entry =
                        SynchronizeViewModelName(@, segs.views, segs.orm,
                                                 segs.settings)]
       /\ last' = [op |-> "synchronize", before |-> sidebar.entry.model_name]
       /\ UNCHANGED <<hub, aggs, site, server, ready_calls, tasks, boot, ext>>

\* One view entry with any of the paths, under any of the configurations.
InitSlug ==
    /\ HubAtRest
    /\ boot = Unused /\ ext = Unused
    /\ sidebar \in {[prefixes |-> pc, entry |-> [path |-> p, model_name |-> m]] :
                       pc \in PrefixConfigs, p \in ViewPaths,
                       m \in InitialModelNames}

NextSlug == DoSynchronizeViewModelName

\* Slug reconciliation of a view entry against its path.
SpecSlug == InitSlug /\ [][NextSlug]_vars

\* q starts with p.
StartsWith(q, p) == Len(p) <= Len(q) /\ SubSeq(q, 1, Len(p)) = p

\* The prefixes, in the order views, ORM, settings, that the path segments
\* start with and that leave at least one trailing segment; `nonempty` tells
\* whether a prefix must have a segment to count.
MatchingPrefixes(segments, segs, nonempty) ==
    SelectSeq(<<segs.views, segs.orm, segs.settings>>,
              LAMBDA p : /\ StartsWith(segments, p)
                         /\ Len(p) < Len(segments)
                         /\ nonempty => p # <<>>)

\* The slug the rule of the specification gives for the segments.
RuleSlug(segments, segs, nonempty) ==
    LET matching == MatchingPrefixes(segments, segs, nonempty)
    IN IF matching = <<>> THEN Join(segments, "_")
       ELSE LET trailing == SubSeq(segments, Len(matching[1]) + 1, Len(segments))
            IN IF Len(trailing) >= 2 THEN <<trailing[2]>> ELSE <<trailing[1]>>

\* C17 (as stated): after reconciliation, every entry with a non-empty path
\* has the model_name the rule gives, every prefix the segments start with
\* counting.
C17_SlugRule ==
    (last.op = "synchronize" /\ sidebar.entry.path # EmptyPath) =>
        sidebar.entry.model_name =
            RuleSlug(LowerSegments(sidebar.entry.path),
                     PrefixSegments(sidebar.prefixes), FALSE)

\* C17 (amended): after reconciliation, every entry whose path has at least
\* one segment has the model_name the rule gives, a prefix counting only when
\* it has at least one segment; an entry whose path has no segment keeps the
\* model_name it had.
C17_SlugRuleSegments ==
    last.op = "synchronize" =>
        IF LowerSegments(sidebar.entry.path) # <<>>
        THEN sidebar.entry.model_name =
                RuleSlug(LowerSegments(sidebar.entry.path),
                         PrefixSegments(sidebar.prefixes), TRUE)
        ELSE sidebar.entry.model_name = last.before

\* The entry at /Views/Demo/List was reconciled to "list" under the default
\* prefixes.
C17_Witness ==
    /\ last.op = "synchronize"
    /\ sidebar.entry.path = <<Slash, "Views", Slash, "Demo", Slash, "List">>
    /\ sidebar.prefixes.views = <<Slash, "views">>
    /\ sidebar.prefixes.orm = <<Slash, "orm">>
    /\ sidebar.entry.model_name = <<"list">>
    /\ last.before = <<"initial">>

\* ------------------------------------------------------ SidebarBuilder.build
\* Registered model-registry entries and registered views in one run.
MaxModels == 2
MaxViews == 2

\* The lower-cased labels and display names in the order of Python's string
\* comparison.
LexOrder ==
    <<"adapters", "admin", "core", "demo", "demo config", "demo list",
      "demo-config", "orm",
      "settings", "systemsetting", "user profile", "views", "zones">>

\* The sort key s.lower(), as its position in that order.
LowerRank(s) == CHOOSE i \in 1..Len(LexOrder) : LexOrder[i] = Lower(s)

\* entry.model.replace("_", " ").title()
Humanize(model) ==
    CASE model = "systemsetting" -> "Systemsetting"
      [] model = "user_profile"  -> "User Profile"
      [] OTHER -> model

\* Entries of admin_site.registry.view_entries: app label, model slug, the
\* entry's own name ("" when it has none), the plural verbose name of the
\* admin bound under (app.lower(), model.lower()) ("" when no admin is
\* bound), and the settings flag.
ModelEntries ==
    {[app |-> "core", model |-> "systemsetting", name |-> "", plural |-> "",
      settings |-> FALSE],
     [app |-> "demo", model |-> "user_profile", name |-> "", plural |-> "",
      settings |-> FALSE],
     [app |-> "core", model |-> "adapter", name |-> "", plural |-> "Adapters",
      settings |-> TRUE],
     [app |-> "Demo", model |-> "zone", name |-> "zones", plural |-> "",
      settings |-> FALSE],
     [app |-> "core", model |-> "zone", name |-> "zones", plural |-> "",
      settings |-> FALSE]}

\* Views registered with site.register_view / register_settings: path,
\* display name, label, settings flag and include_in_sidebar. A view
\* registered without the argument is included (test_sidebar_views.py
\* 45-65); the views and ORM landing pages of the system app are registered
\* with include_in_sidebar=False (system/views.py 54-71) and its settings
\* landing page, registered with register_settings, is not listed either
\* (test_sidebar_views.py 88-95). The included view at /views is one that
\* a site without the system app's pages registers there itself.
ViewEntries ==
    {[path |-> <<Slash, "views", Slash, "demo", Slash, "list">>,
      name |-> "Demo List", label |-> "demo", settings |-> FALSE,
      include |-> TRUE],
     [path |-> <<Slash, "views">>,
      name |-> "Views", label |-> "views", settings |-> FALSE,
      include |-> FALSE],
     [path |-> <<Slash, "views">>,
      name |-> "Views", label |-> "views", settings |-> FALSE,
      include |-> TRUE],
     [path |-> <<Slash, "settings", Slash, "demo", Slash, "config">>,
      name |-> "Demo Config", label |-> "demo-config", settings |-> TRUE,
      include |-> TRUE],
     [path |-> <<Slash, "Views", Slash, "Demo", Slash, "List">>,
      name |-> "demo list", label |-> "demo", settings |-> FALSE,
      include |-> TRUE],
     [path |-> <<Slash, "settings">>,
      name |-> "Settings", label |-> "settings", settings |-> TRUE,
      include |-> FALSE],
     [path |-> <<Slash, "orm">>,
      name |-> "ORM", label |-> "orm", settings |-> FALSE,
      include |-> FALSE],
     [path |-> <<Slash, "reports", Slash, "daily">>,
      name |-> "Adapters", label |-> "core", settings |-> FALSE,
      include |-> TRUE]}

\* The display name _collect_apps gives a model-registry entry.
DisplayName(entry) ==
    IF entry.plural # "" THEN entry.plural
    ELSE IF entry.name # "" THEN entry.name
    ELSE Humanize(entry.model)

\* The dict _collect_apps appends for the i-th entry of the registry; `id`
\* stands for the identity of the object.
AppLeaf(entry, i, prefixes) ==
    [id |-> <<"model", i>>,
     model_name |-> <<entry.model>>,
     display_name |-> DisplayName(entry),
     path |-> (IF entry.settings THEN prefixes.settings ELSE prefixes.orm)
              \o <<Slash, entry.app, Slash, entry.model>>,
     settings |-> entry.settings]

\* The dict the pages collaborator hands over for the i-th registered view.
ViewLeaf(view, i) ==
    [id |-> <<"view", i>>,
     model_name |-> <<"initial">>,
     display_name |-> view.name,
     path |-> view.path,
     settings |-> view.settings]

\* Mutant of Extend: the entries of a label replace what the label had.
ExtendOverwrite(groups, label, entries) ==
    IF \E i \in 1..Len(groups) : groups[i].label = label
    THEN [i \in 1..Len(groups) |->
            IF groups[i].label = label
            THEN [groups[i] EXCEPT !.models = entries] ELSE groups[i]]
    ELSE Append(groups, [label |-> label, models |-> entries])

\* groups.setdefault(label, []).extend(entries) on a list of (label, entries)
\* in insertion order of the labels.
Extend(groups, label, entries) ==
    IF \E i \in 1..Len(groups) : groups[i].label = label
    THEN [i \in 1..Len(groups) |->
            IF groups[i].label = label
            THEN [groups[i] EXCEPT !.models = @ \o entries] ELSE groups[i]]
    ELSE Append(groups, [label |-> label, models |-> entries])

\* Mutant of SortModels: the list is left as it is.
SortModelsNot(models) == models

\* models.sort(key=lambda item: item["display_name"].lower()): a stable sort;
\* the last element is put behind every element whose key is not greater.
RECURSIVE SortModels(_)
SortModels(models) ==
    IF Len(models) <= 1 THEN models
    ELSE LET e == models[Len(models)]
             sorted == SortModels(SubSeq(models, 1, Len(models) - 1))
             n == Cardinality({i \in 1..Len(sorted) :
                     LowerRank(sorted[i].display_name)
                        <= LowerRank(e.display_name)})
         IN SubSeq(sorted, 1, n) \o <<e>> \o SubSeq(sorted, n + 1, Len(sorted))

\* combined_items.sort(key=lambda item: item[0].lower()): likewise stable.
RECURSIVE SortGroups(_)
SortGroups(groups) ==
    IF Len(groups) <= 1 THEN groups
    ELSE LET g == groups[Len(groups)]
             sorted == SortGroups(SubSeq(groups, 1, Len(groups) - 1))
             n == Cardinality({i \in 1..Len(sorted) :
                     LowerRank(sorted[i].label) <= LowerRank(g.label)})
         IN SubSeq(sorted, 1, n) \o <<g>> \o SubSeq(sorted, n + 1, Len(sorted))

\* Every group's list sorted, in the order of the groups.
SortEach(groups) ==
    [i \in 1..Len(groups) |->
        [groups[i] EXCEPT !.models = SortModels(@)]]

\* Mutant of GroupApps: no entry is filtered out.
RECURSIVE GroupAppsUnfiltered(_, _, _, _, _)
GroupAppsUnfiltered(apps, entries, i, settings, prefixes) ==
    IF i > Len(entries) THEN apps
    ELSE GroupAppsUnfiltered(Extend(apps, entries[i].app,
                                    <<AppLeaf(entries[i], i, prefixes)>>),
                             entries, i + 1, settings, prefixes)

\* SidebarBuilder._collect_apps, lines 109-131: the entries that pass the
\* settings filter, from entry i on, grouped by app label.
RECURSIVE GroupApps(_, _, _, _, _)
GroupApps(apps, entries, i, settings, prefixes) ==
    IF i > Len(entries) THEN apps
    ELSE IF entries[i].settings # settings
    THEN GroupApps(apps, entries, i + 1, settings, prefixes)
    ELSE GroupApps(Extend(apps, entries[i].app,
                          <<AppLeaf(entries[i], i, prefixes)>>),
                   entries, i + 1, settings, prefixes)

\* SidebarBuilder._collect_apps(admin_site, settings)
CollectApps(sb, settings) ==
    SortGroups(SortEach(GroupApps(<<>>, sb.models, 1, settings, sb.prefixes)))

\* Whether pages.iter_sidebar_views(settings=...) lists a view: its settings
\* flag is the requested one and it was registered for the sidebar. (The
\* pages collaborator is not part of src/.)
Listed(view, settings) ==
    /\ view.settings = settings
    /\ view.include

\* admin_site.pages.iter_sidebar_views(settings=...): the listed views, from
\* view i on, grouped by label.
RECURSIVE IterSidebarViews(_, _, _, _)
IterSidebarViews(groups, views, i, settings) ==
    IF i > Len(views) THEN groups
    ELSE IF ~Listed(views[i], settings)
    THEN IterSidebarViews(groups, views, i + 1, settings)
    ELSE IterSidebarViews(Extend(groups, views[i].label,
                                 <<ViewLeaf(views[i], i)>>),
                          views, i + 1, settings)

\* SidebarBuilder._collect_views(admin_site, settings)
CollectViews(sb, settings) ==
    IterSidebarViews(<<>>, sb.views, 1, settings)

\* SidebarBuilder.build, lines 73-81: every entry of every view group is
\* reconciled and the group joins the bucket of its label, from group i on.
RECURSIVE MergeViews(_, _, _, _)
MergeViews(combined, view_groups, i, segs) ==
    IF i > Len(view_groups) THEN combined
    ELSE LET entries == view_groups[i].models
             synced == [j \in 1..Len(entries) |->
                          SynchronizeViewModelName(entries[j], segs.views,
                                                   segs.orm, segs.settings)]
         IN MergeViews(Extend(combined, view_groups[i].label, synced),
                       view_groups, i + 1, segs)

\* SidebarBuilder.build(admin_site, request, settings_mode, ...): the list of
\* groups, each with its label and its models (the display label of a group
\* is formatted by the site and left out).
Build(sb, settings_mode) ==
    LET raw_apps == CollectApps(sb, settings_mode)
        view_groups == CollectViews(sb, settings_mode)
        combined == MergeViews(raw_apps, view_groups, 1,
                               PrefixSegments(sb.prefixes))
    IN SortGroups(SortEach(combined))

\* admin_site.register(...) of a model not registered before.
DoRegisterModel ==
    \E e \in ModelEntries :
        /\ Len(sidebar.models) < MaxModels
        /\ e \notin Range(sidebar.models)
        /\ sidebar' = [sidebar EXCEPT !.models = Append(@, e)]
        /\ last' = [op |-> "register_model"]
        /\ UNCHANGED <<hub, aggs, site, server, ready_calls, tasks, boot, ext>>

\* site.register_view(...) / site.register_settings(...) of a view at a
\* path that nothing is registered at.
DoRegisterView ==
    \E v \in ViewEntries :
        /\ Len(sidebar.views) < MaxViews
        /\ \A u \in Range(sidebar.views) : u.path # v.path
        /\ sidebar' = [sidebar EXCEPT !.views = Append(@, v)]
        /\ last' = [op |-> "register_view"]
        /\ UNCHANGED <<hub, aggs, site, server, ready_calls, tasks, boot, ext>>

\* SidebarBuilder.build(admin_site, request, settings_mode, ...)
DoBuild ==
    \E settings_mode \in BOOLEAN :
        /\ last' = [op |-> "build", settings_mode |-> settings_mode,
                    out |-> Build(sidebar, settings_mode)]
        /\ UNCHANGED <<hub, aggs, site, server, ready_calls, tasks,
                       boot, ext, sidebar>>

\* The cached prefixes: the defaults, and a views prefix in upper case.
SidebarPrefixes ==
    {[views |-> <<Slash, "views">>, orm |-> <<Slash, "orm">>,
      settings |-> <<Slash, "settings">>],
     [views |-> <<Slash, "Views">>, orm |-> <<Slash, "orm">>,
      settings |-> <<Slash, "settings">>]}

\* A site with nothing registered.
InitSidebar ==
    /\ HubAtRest
    /\ boot = Unused /\ ext = Unused
    /\ \E p \in SidebarPrefixes :
          sidebar = [prefixes |-> p, models |-> <<>>, views |-> <<>>]

NextSidebar ==
    \/ DoRegisterModel
    \/ DoRegisterView
    \/ DoBuild

\* Registration of models and views on one site and builds of its sidebar.
SpecSidebar == InitSidebar /\ [][NextSidebar]_vars

\* The leaves of a built sidebar, each with the label of its group.
Leaves(out) ==
    UNION {{[label |-> out[i].label, leaf |-> out[i].models[j]] :
                j \in 1..Len(out[i].models)} : i \in 1..Len(out)}

\* The model_name a landing page would resolve to, per section.
SectionRootSlugs(prefixes) ==
    LET segs == PrefixSegments(prefixes)
    IN {Join(segs.views, "_"), Join(segs.orm, "_"), Join(segs.settings, "_")}

\* C18: in the output of SidebarBuilder.build no leaf has a resolved slug
\* equal to a bare section root: a view registered at exactly the views, ORM
\* or settings prefix is in no group's model list. Violated by a view that
\* is registered at a bare prefix without include_in_sidebar=False: build
\* passes every entry of the pages collaborator on, and the slug of such an
\* entry falls back to its joined path segments.
C18_SectionRootSuppressed ==
    last.op = "build" =>
        \A l \in Leaves(last.out) :
            /\ l.leaf.model_name \notin SectionRootSlugs(sidebar.prefixes)
            /\ l.leaf.id[1] = "view" =>
                  LowerSegments(NormalizePrefix(l.leaf.path)) \notin
                      {SplitPrefix(NormalizePrefix(sidebar.prefixes.views)),
                       SplitPrefix(NormalizePrefix(sidebar.prefixes.orm)),
                       SplitPrefix(NormalizePrefix(sidebar.prefixes.settings))}

\* C19: in the output of SidebarBuilder.build the groups are in non-decreasing
\* order of lower-cased label, and within every group the entries, those of
\* the model registry and the views together, are in non-decreasing order of
\* lower-cased display name.
C19_SidebarOrdering ==
    last.op = "build" =>
        /\ \A i \in 1..(Len(last.out) - 1) :
              LowerRank(last.out[i].label) <= LowerRank(last.out[i + 1].label)
        /\ \A i \in 1..Len(last.out) :
              \A j \in 1..(Len(last.out[i].models) - 1) :
                 LowerRank(last.out[i].models[j].display_name)
                    <= LowerRank(last.out[i].models[j + 1].display_name)

\* A build with several groups, one of which lists a view in front of a
\* model of the registry.
C19_Witness ==
    /\ last.op = "build"
    /\ Len(last.out) >= 2
    /\ \E i \in 1..Len(last.out) :
          \E j \in 1..(Len(last.out[i].models) - 1) :
             /\ last.out[i].models[j].id[1] = "view"
             /\ last.out[i].models[j + 1].id[1] = "model"

\* The model-registry entries of a mode, as the identities of their leaves
\* with the label they belong under.
ExpectedModelLeaves(sb, settings_mode) ==
    {[label |-> sb.models[i].app, id |-> <<"model", i>>] :
        i \in {k \in 1..Len(sb.models) : sb.models[k].settings = settings_mode}}

\* The view entries the pages collaborator lists in a mode, likewise.
ExpectedViewLeaves(sb, settings_mode) ==
    {[label |-> sb.views[i].label, id |-> <<"view", i>>] :
        i \in {k \in 1..Len(sb.views) :
                 Listed(sb.views[k], settings_mode)}}

\* The number of leaves in a built sidebar.
RECURSIVE LeafCount(_)
LeafCount(out) ==
    IF out = <<>> THEN 0 ELSE Len(Head(out).models) + LeafCount(Tail(out))

\* C20: the output of SidebarBuilder.build has exactly one group per distinct
\* label of the model-registry groups and the view groups, and the entries of
\* a group are exactly the model-registry entries of that label plus the view
\* entries of that label, nothing dropped and nothing duplicated; a view at
\* /views/demo/list labelled "demo" is under "demo" with slug "list", the
\* model core/systemsetting under "core".
C20_MergeLossless ==
    last.op = "build" =>
        LET out == last.out
            expected == ExpectedModelLeaves(sidebar, last.settings_mode)
                        \cup ExpectedViewLeaves(sidebar, last.settings_mode)
        IN /\ \A i, j \in 1..Len(out) : out[i].label = out[j].label => i = j
           /\ {out[i].label : i \in 1..Len(out)} = {e.label : e \in expected}
           /\ {[label |-> l.label, id |-> l.leaf.id] : l \in Leaves(out)}
                 = expected
           /\ LeafCount(out) = Cardinality(expected)
           /\ \A l \in Leaves(out) :
                 /\ l.leaf.id[1] = "view"
                    /\ l.leaf.path = <<Slash, "views", Slash, "demo", Slash,
                                       "list">>
                    => l.label = "demo" /\ l.leaf.model_name = <<"list">>
                 /\ l.leaf.id[1] = "model"
                    /\ sidebar.models[l.leaf.id[2]].model = "systemsetting"
                    => l.label = "core"
                       /\ l.leaf.model_name = <<"systemsetting">>

\* A build that merges a view into the group of a model of the registry,
\* with the view /views/demo/list and the model core/systemsetting listed.
C20_Witness ==
    /\ last.op = "build"
    /\ \E l \in Leaves(last.out) :
          /\ l.leaf.id[1] = "view" /\ l.leaf.model_name = <<"list">>
          /\ \E m \in Leaves(last.out) :
                m.label = l.label /\ m.leaf.id[1] = "model"
    /\ \E l \in Leaves(last.out) :
          l.label = "core" /\ l.leaf.model_name = <<"systemsetting">>

\* ------------------------------------------- router-builder failure semantics
\* The error a failing AdminSite.build_router raises.
BuilderError == Raised("BuilderError", <<"build_router failed">>)

\* Mutant of TryGetAdminRouter: a failure of the builder is caught and an
\* empty router is cached and served.
TryGetAdminRouterSwallow(st, a, raises) ==
    IF st.aggs[a].admin_router # NoRouter
    THEN [st |-> st, result |-> Returned(st.aggs[a].admin_router)]
    ELSE LET s1 == IF raises
                   THEN [st EXCEPT
                           !.aggs[a].admin_router =
                               [id |-> st.site.build_calls + 1, entries |-> {}],
                           !.site.build_calls = @ + 1]
                   ELSE GetAdminRouter(st, a)
         IN [st |-> s1, result |-> Returned(s1.aggs[a].admin_router)]

\* RouterAggregator.get_admin_router() over a builder that may raise: the
\* cached router is served without the builder; otherwise the builder is
\* invoked and its error, if it raises, leaves the aggregator as it was.
TryGetAdminRouter(st, a, raises) ==
    IF st.aggs[a].admin_router # NoRouter
    THEN [st |-> st, result |-> Returned(st.aggs[a].admin_router)]
    ELSE IF raises
    THEN [st |-> [st EXCEPT !.site.build_calls = @ + 1],
          result |-> BuilderError]
    ELSE LET s1 == GetAdminRouter(st, a)
         IN [st |-> s1, result |-> Returned(s1.aggs[a].admin_router)]

\* RouterAggregator.mount(server) over a builder that may raise: the router is
\* obtained first, and nothing is mounted when that fails.
TryMount(st, a, raises) ==
    IF st.aggs[a].mounted /\ st.aggs[a].admin_router # NoRouter
    THEN [st |-> st, result |-> Returned(None)]
    ELSE LET r == TryGetAdminRouter(st, a, raises)
         IN IF r.result.ok
            THEN [st |-> MountInto(r.st, a), result |-> Returned(None)]
            ELSE r

\* AdminHub.init_app(app) without packages over a builder that may raise.
TryInitApp(st, raises) ==
    LET s1 == GetRouter(st)
    IN TryMount(s1, s1.hub.router, raises)

\* The call ended with result r on aggregator a.
CommitCall(op, a, r) ==
    /\ WithinBounds(r.st, ready_calls)
    /\ Commit(r.st)
    /\ last' = [op |-> op, agg |-> a, result |-> r.result,
                after_failure |-> ~last.result.ok /\ last.agg = a]
    /\ UNCHANGED <<ready_calls, tasks>>

\* aggregator.get_admin_router() by a caller holding aggregator a.
DoTryGetAdminRouter ==
    \E a \in 1..Len(aggs) :
        CommitCall("get_admin_router", a,
                   TryGetAdminRouter(St, a, ext.builder_raises))

\* aggregator.mount(server) by a caller holding aggregator a.
DoTryMount ==
    \E a \in 1..Len(aggs) :
        CommitCall("mount", a, TryMount(St, a, ext.builder_raises))

\* hub.init_app(app)
DoTryInitApp ==
    CommitCall("init_app", GetRouter(St).hub.router,
               TryInitApp(St, ext.builder_raises))

\* aggregator.invalidate_admin_router() by a caller holding aggregator a.
DoTryInvalidate ==
    \E a \in 1..Len(aggs) :
        CommitCall("invalidate_admin_router", a,
                   [st |-> InvalidateAdminRouter(St, a),
                    result |-> Returned(None)])

\* site.build_router is replaced by a callable that raises, or by one that
\* builds.
DoPatchBuilder ==
    /\ ext' = [ext EXCEPT !.builder_raises = ~@]
    /\ UNCHANGED <<hub, aggs, site, server, ready_calls, tasks, last, boot,
                   sidebar>>

\* A hub without a wrapper and one aggregator held by a caller, over a site
\* whose builder works or raises.
InitFailure ==
    /\ hub = [app_configs |-> <<>>, started_configs |-> {}, router |-> None,
              settings |-> "s0"]
    /\ aggs = <<NewAggregator("s0")>>
    /\ site = NewSite("s0")
    /\ server = NewServer
    /\ ready_calls = [c \in AppConfigObjs |-> 0]
    /\ tasks = [t \in Tasks |-> IdleTask]
    /\ last = [op |-> "init", agg |-> None, result |-> Returned(None),
               after_failure |-> FALSE]
    /\ boot = Unused /\ sidebar = Unused
    /\ ext \in {[builder_raises |-> f] : f \in BOOLEAN}

NextFailure ==
    \/ DoTryGetAdminRouter
    \/ DoTryMount
    \/ DoTryInitApp
    \/ DoPatchBuilder
    \/ DoTryInvalidate

\* Mounting and router reads over a builder that may fail.
SpecFailure == InitFailure /\ [][NextFailure]_vars

\* The calls that need the admin router.
RouterCalls == {"get_admin_router", "mount", "init_app"}

\* C21: when the site's router-builder raises during mount or
\* get_admin_router, that error reaches the caller, no router is cached and
\* nothing is mounted; the next call on the same aggregator invokes the
\* builder again.
C21_BuilderFailurePropagates ==
    [][/\ (/\ last'.op \in RouterCalls
           /\ ext.builder_raises
           /\ site'.build_calls > site.build_calls)
          => /\ last'.result = BuilderError
             /\ aggs'[last'.agg].admin_router = NoRouter
             /\ aggs'[last'.agg].mounted
                   = (last'.agg \in 1..Len(aggs) /\ aggs[last'.agg].mounted)
             /\ server' = server
       /\ (/\ last.op \in RouterCalls /\ ~last.result.ok
           /\ ext' = ext
           /\ last'.op \in RouterCalls /\ last'.agg = last.agg)
          => site'.build_calls = site.build_calls + 1]_vars

\* A call failed on the builder, and the next call on the same aggregator, a
\* mount after the builder was repaired, built and mounted.
C21_Witness ==
    /\ last.op = "mount" /\ last.result.ok /\ last.after_failure
    /\ site.build_calls = 2
    /\ aggs[last.agg].admin_router.id = 2
    /\ aggs[last.agg].mounted
    /\ server.included = 1

\* C22: BootManager.reset restores the unconfigured state from any reachable
\* state: afterwards the adapter slot is empty, the ModelRegistrar holds no
\* accumulated modules or configs, and the cached settings are the current
\* global snapshot.
C22_ResetRestores ==
    last.op = "reset" =>
        /\ boot.adapter = NoAdapter
        /\ boot.registrar.configs = <<>>
        /\ boot.registrar.modules = <<>>
        /\ boot.config = FALSE
        /\ boot.settings = boot.current_settings

\* A reset of a manager that had an adapter bound and modules imported
\* through an init, in a process reconfigured with another snapshot.
C22_Witness ==
    /\ last.op = "reset"
    /\ last.was_bound
    /\ boot.inits > 0
    /\ boot.imported # {}
    /\ boot.adapter = NoAdapter
    /\ boot.current_settings = "s1"
    /\ boot.settings = "s1"

\* The modules of the registered configs that adapter `a` has not imported.
Unsynchronized(b, a) ==
    {m \in UNION {Range(ConfigModules(c)) : c \in Range(b.registrar.configs)} :
        <<a.id, m>> \notin b.imported}

\* C23: register_app_config always adds the config to the ModelRegistrar and
\* synchronizes with the adapter at once exactly when one is bound; a config
\* registered while the slot is empty is synchronized when an adapter is
\* bound, by init or lazily; registering again with nothing new changes
\* nothing.
C23_NoConfigMissesSync ==
    [][/\ last'.op = "register_app_config" =>
             /\ "a1" \in Range(boot'.registrar.configs)
             /\ Range(ConfigModules("a1")) \subseteq
                   Range(boot'.registrar.modules)
             /\ boot.adapter # NoAdapter =>
                   /\ boot'.adapter = boot.adapter
                   /\ Unsynchronized(boot', boot.adapter) = {}
             /\ boot.adapter = NoAdapter => boot'.imported = boot.imported
             /\ ("a1" \in Range(boot.registrar.configs)
                   /\ boot.adapter # NoAdapter
                   /\ Unsynchronized(boot, boot.adapter) = {})
                => boot' = boot
       /\ (boot.adapter = NoAdapter /\ boot'.adapter # NoAdapter) =>
             /\ Range(boot.registrar.configs)
                   \subseteq Range(boot'.registrar.configs)
             /\ Unsynchronized(boot', boot'.adapter) = {}]_vars

\* A config was registered with the slot empty, and a later read of
\* user_model bound the default adapter, which imported the config's module.
C23_Witness ==
    /\ last.op = "read_user_model" /\ ~last.was_bound
    /\ boot.adapter # NoAdapter
    /\ boot.inits = 0
    /\ "a1" \in Range(boot.registrar.configs)
    /\ \A m \in Range(ConfigModules("a1")) : <<boot.adapter.id, m>> \in boot.imported

\* ----------------------------------------------------------- AdapterRegistry
\* Calls of register in one run.
MaxRegistrations == 3

\* Names adapters are registered and looked up under, and the adapter
\* instances of a run: two per name.
RegistryNames == {"alpha", "beta", "gamma"}
RegistryAdapters == {[id |-> i, name |-> n] : i \in 1..2, n \in RegistryNames}

\* An AdapterRegistry with nothing registered.
EmptyRegistry == [n \in RegistryNames |-> NoAdapter]

\* Mutant of RegistryRegister: a name already taken keeps its adapter.
RegistryRegisterFirstWins(reg, adapter) ==
    IF reg[adapter.name] # NoAdapter THEN reg
    ELSE [reg EXCEPT ![adapter.name] = adapter]

\* registry.register(adapter): stored under adapter.name, overwriting.
RegistryRegister(reg, adapter) == [reg EXCEPT ![adapter.name] = adapter]

\* registry.get(name), as BootManager._find_adapter returns it.
RegistryGet(reg, name) == FindAdapter([registry |-> reg], name)

\* adapter_registry.register(adapter)
DoRegistryRegister ==
    \E adapter \in RegistryAdapters :
        /\ Len(boot.log) < MaxRegistrations
        /\ boot' = [registry |-> RegistryRegister(boot.registry, adapter),
                    log |-> Append(boot.log, adapter)]
        /\ last' = [op |-> "register", name |-> adapter.name,
                    result |-> Returned(None), before |-> boot.registry]
        /\ UNCHANGED <<hub, aggs, site, server, ready_calls, tasks, ext,
                       sidebar>>

\* registry.get(name)
DoRegistryGet ==
    \E name \in RegistryNames :
        /\ last' = [op |-> "get", name |-> name,
                    result |-> RegistryGet(boot.registry, name),
                    before |-> boot.registry]
        /\ UNCHANGED <<hub, aggs, site, server, ready_calls, tasks, boot, ext,
                       sidebar>>

\* An empty registry; `log` keeps the adapters in the order of their
\* registration.
InitRegistry ==
    /\ HubAtRest
    /\ boot = [registry |-> EmptyRegistry, log |-> <<>>]
    /\ ext = Unused /\ sidebar = Unused

NextRegistry ==
    \/ DoRegistryRegister
    \/ DoRegistryGet

\* One AdapterRegistry: registrations and lookups.
SpecRegistry == InitRegistry /\ [][NextRegistry]_vars

\* The adapter registered last under a name in a log, NoAdapter if none was.
RECURSIVE LastRegistered(_, _)
LastRegistered(log, name) ==
    IF log = <<>> THEN NoAdapter
    ELSE IF log[Len(log)].name = name THEN log[Len(log)]
    ELSE LastRegistered(SubSeq(log, 1, Len(log) - 1), name)

\* C24: after any sequence of register calls, get(name) returns the adapter
\* registered last under the name; a name once registered is never absent;
\* get of a name never registered fails with a not-found error and leaves the
\* registry as it was.
C24_RegistryLastWins ==
    /\ \A n \in RegistryNames : boot.registry[n] = LastRegistered(boot.log, n)
    /\ last.op = "register" =>
          \A n \in RegistryNames :
             last.before[n] # NoAdapter => boot.registry[n] # NoAdapter
    /\ last.op = "get" =>
          /\ boot.registry = last.before
          /\ LET found == LastRegistered(boot.log, last.name)
             IN IF found = NoAdapter
                THEN ~last.result.ok /\ last.result.kind = "NotFound"
                ELSE last.result = Returned(found)

\* A lookup returned the second of two adapters registered under its name,
\* another name having been registered in between.
C24_Witness ==
    /\ last.op = "get" /\ last.result.ok
    /\ Len(boot.log) = 3
    /\ boot.log[1].name = last.name /\ boot.log[3].name = last.name
    /\ boot.log[1] # boot.log[3]
    /\ boot.log[2].name # last.name
    /\ last.result.value = boot.log[3]

\* ------------------------------------------------------------ ModelRegistrar
\* Calls of add_config and add_adapter in one run.
MaxAdds == 3

\* The model_modules lists of the adapters handed to add_adapter: empty, one
\* module, several, one listed twice, one that a config declares too.
AdapterModuleLists ==
    {<<>>, <<"alpha.models">>, <<"beta.models", "alpha.models">>,
     <<"alpha.models", "alpha.models", "pkg.a.models">>}

\* registrar.add_config(config)
DoAddConfig ==
    \E c \in AppConfigObjs :
        /\ boot.adds < MaxAdds
        /\ boot' = [registrar |-> AddConfig(boot.registrar, c),
                    adds |-> boot.adds + 1]
        /\ last' = [op |-> "add_config", modules |-> ConfigModules(c)]
        /\ UNCHANGED <<hub, aggs, site, server, ready_calls, tasks, ext,
                       sidebar>>

\* registrar.add_adapter(adapter)
DoAddAdapter ==
    \E q \in AdapterModuleLists :
        /\ boot.adds < MaxAdds
        /\ boot' = [registrar |->
                       AddAdapter(boot.registrar, [model_modules |-> q]),
                    adds |-> boot.adds + 1]
        /\ last' = [op |-> "add_adapter", modules |-> q]
        /\ UNCHANGED <<hub, aggs, site, server, ready_calls, tasks, ext,
                       sidebar>>

\* registrar.clear()
DoClear ==
    /\ boot' = [boot EXCEPT !.registrar = EmptyRegistrar]
    /\ last' = [op |-> "clear", modules |-> <<>>]
    /\ UNCHANGED <<hub, aggs, site, server, ready_calls, tasks, ext, sidebar>>

\* ModelRegistrar(): nothing accumulated.
InitRegistrar ==
    /\ HubAtRest
    /\ boot = [registrar |-> EmptyRegistrar, adds |-> 0]
    /\ ext = Unused /\ sidebar = Unused

NextRegistrar ==
    \/ DoAddConfig
    \/ DoAddAdapter
    \/ DoClear

\* One ModelRegistrar: accumulation from configs and adapters, and clear.
SpecRegistrar == InitRegistrar /\ [][NextRegistrar]_vars

\* The position of the first occurrence of x in q.
FirstIndex(q, x) == CHOOSE i \in 1..Len(q) :
                        q[i] = x /\ \A j \in 1..(i - 1) : q[j] # x

\* C25: after any sequence of add_config and add_adapter calls each module
\* path is in the list at most once, in the position of its first insertion
\* (what was there stays in place, new paths follow in the order they were
\* given), and clear() empties all accumulated state.
C25_RegistrarDedupOrdered ==
    [][/\ last'.op \in {"add_config", "add_adapter"} =>
             LET old == boot.registrar.modules
                 new == boot'.registrar.modules
                 given == last'.modules
             IN /\ \A i, j \in 1..Len(new) : new[i] = new[j] => i = j
                /\ Len(old) <= Len(new)
                /\ SubSeq(new, 1, Len(old)) = old
                /\ Range(new) = Range(old) \cup Range(given)
                /\ \A i, j \in (Len(old) + 1)..Len(new) :
                      i < j => FirstIndex(given, new[i])
                                  < FirstIndex(given, new[j])
       /\ last'.op = "clear" =>
             /\ boot'.registrar.modules = <<>>
             /\ boot'.registrar.configs = <<>>]_vars

\* An adapter whose list repeats a module and names one a config had already
\* brought was added: three modules, the config's first.
C25_Witness ==
    /\ last.op = "add_adapter"
    /\ last.modules = <<"alpha.models", "alpha.models", "pkg.a.models">>
    /\ boot.registrar.modules
          = <<"pkg.a.models", "beta.models", "alpha.models">>

\* C26: with no invalidation in between, any interleaving of mount() and
\* get_admin_router() on one RouterAggregator invokes the site's
\* router-builder at most once, whichever is called first, and every
\* get_admin_router() returns the same router object: only the call that
\* finds no router builds, and no call but invalidate_admin_router() makes a
\* held router go away or change.
C26_BuildOncePerCache ==
    [][/\ last'.op \in {"mount", "get_admin_router"} =>
             LET a == last'.agg
             IN IF Cached(aggs[a])
                THEN /\ site'.build_calls = site.build_calls
                     /\ aggs'[a].admin_router = aggs[a].admin_router
                ELSE /\ site'.build_calls = site.build_calls + 1
                     /\ aggs'[a].admin_router
                           = [id |-> site'.build_calls,
                              entries |-> site.model_reg]
       /\ last'.op # "invalidate_admin_router" =>
             \A a \in 1..Len(aggs) :
                Cached(aggs[a]) =>
                   aggs'[a].admin_router = aggs[a].admin_router]_vars

\* get_admin_router() after a mount(), with a model registered in between,
\* was served the router the mount had built: one build in all.
C26_Witness ==
    /\ last.op = "get_admin_router" /\ last.cached
    /\ aggs[last.agg].mounted
    /\ site.build_calls = 1
    /\ aggs[last.agg].admin_router.id = 1
    /\ site.model_reg # aggs[last.agg].admin_router.entries

\* C27: AdminHub._get_router is lazy and cached. A new hub has no wrapper; a
\* wrapper is constructed only by a call of _get_router that finds none, or
\* that follows an invalidation made in the same init_app; calls with no
\* invalidation in between are served the same wrapper, and nothing but an
\* invalidation makes the hub let go of it.
C27_WrapperLazyCached ==
    /\ hub.router = None /\ aggs = <<>>
    /\ [][/\ Len(aggs') > Len(aggs) =>
                /\ Len(aggs') = Len(aggs) + 1
                /\ hub'.router = Len(aggs')
                /\ last'.op \in {"init_app", "get_admin_router"}
                /\ hub.router # None =>
                      /\ last'.op = "init_app"
                      /\ Paths(hub'.app_configs) # Paths(hub.app_configs)
          /\ (last'.op \in {"init_app", "get_admin_router"}
                /\ hub.router # None
                /\ Paths(hub'.app_configs) = Paths(hub.app_configs)) =>
                /\ hub'.router = hub.router
                /\ Len(aggs') = Len(aggs)
          /\ last'.op \in {"init_app", "get_admin_router"} =>
                hub'.router # None
          /\ (hub.router # None /\ hub'.router # hub.router) =>
                \/ last'.op = "settings_update"
                \/ Paths(hub'.app_configs) # Paths(hub.app_configs)]_vars

\* After an invalidation the hub constructed a second wrapper and served it
\* again on the next call.
C27_Witness ==
    /\ last.op = "get_admin_router" /\ last.cached
    /\ hub.router = 2
    /\ Len(aggs) = 2
    /\ last.agg = 2

\* ---------------------------------------------------- two-level invalidation
\* hub.autodiscover(packages) where discovery yields one config.
DoDiscoverOne ==
    \E c \in {"a1", "b1"} :
        LET st == Autodiscover(St, <<c>>)
        IN /\ WithinBounds(st, ready_calls)
           /\ Commit(st)
           /\ last' = [op |-> "autodiscover", cached |-> hub.router # None]
           /\ UNCHANGED <<ready_calls, tasks>>

\* hub.init_app(app) without packages.
DoMountHub ==
    LET st == InitApp(St, FALSE, <<>>)
    IN /\ WithinBounds(st, ready_calls)
       /\ Commit(st)
       /\ last' = [op |-> "init_app", agg |-> st.hub.router]
       /\ UNCHANGED <<ready_calls, tasks>>

NextInvalidation ==
    \/ DoHandleSettingsUpdate
    \/ DoDiscoverOne
    \/ DoMountHub
    \/ DoHubGetAdminRouter
    \/ DoGetAdminRouter
    \/ DoSiteRegister

\* One AdminHub and the callers that keep the aggregators of its wrappers.
SpecInvalidation == Init /\ [][NextInvalidation]_vars

\* C28: AdminHub._invalidate_router_cache with a wrapper in place makes the
\* wrapper's aggregator drop its admin router and drops the wrapper, so a
\* caller that still holds the old aggregator and the hub's next _get_router
\* both see a rebuild; with no wrapper it changes nothing and constructs
\* nothing.
C28_TwoLevelInvalidation ==
    [][/\ (\/ last'.op = "settings_update"
           \/ /\ last'.op = "autodiscover"
              /\ Paths(hub'.app_configs) # Paths(hub.app_configs)) =>
             /\ hub'.router = None
             /\ site'.build_calls = site.build_calls
             /\ IF hub.router # None
                THEN aggs' = [aggs EXCEPT ![hub.router].admin_router = NoRouter]
                ELSE aggs' = aggs
       /\ (/\ last'.op = "get_admin_router"
           /\ hub.router = None /\ hub'.router # None) =>
             /\ site'.build_calls = site.build_calls + 1
             /\ aggs'[hub'.router].admin_router
                   = [id |-> site'.build_calls, entries |-> site.model_reg]
       /\ (/\ last'.op = "get_admin_router"
           /\ last'.agg \in 1..Len(aggs)
           /\ last'.agg # hub.router
           /\ hub'.router = hub.router) =>
             /\ site'.build_calls = site.build_calls
                   + (IF Cached(aggs[last'.agg]) THEN 0 ELSE 1)
             /\ ~Cached(aggs[last'.agg]) =>
                   aggs'[last'.agg].admin_router
                      = [id |-> site'.build_calls,
                         entries |-> site.model_reg]]_vars

\* The hub invalidated its mounted wrapper, and the caller that kept the
\* wrapper's aggregator got a router of a new build, with the model
\* registered since.
C28_Witness ==
    /\ last.op = "get_admin_router" /\ ~last.cached
    /\ last.agg = 1
    /\ hub.router = None
    /\ aggs[1].mounted
    /\ aggs[1].admin_router.id = 2
    /\ aggs[1].admin_router.entries # {}

\* ------------------------------------- the startup handler of BootManager.init
\* Mutant of HandlerPosition: finalize is begun while a hook is still awaited.
HandlerPositionEager(task) == "finalize"

\* Where _finalize_admin_site stands when start_app_configs has run up to an
\* await: inside it while a hook is awaited, at `await finalize()` once it
\* returned.
HandlerPosition(task) ==
    IF task.pc = "done" THEN "finalize" ELSE "start_app_configs"

\* The handler moves on: the calls it has begun are appended to its trace.
HandlerAdvance(task) ==
    LET pos == HandlerPosition(task)
    IN [ext EXCEPT !.pc = pos,
                   !.trace = IF pos = "finalize" THEN Append(@, "finalize")
                             ELSE @]

\* The framework runs _finalize_admin_site: start_app_configs is called and
\* runs up to its first await.
HandlerBegins ==
    /\ ext.pc = "idle"
    /\ LET task == Resume([IdleTask EXCEPT !.snapshot = Items(hub.app_configs)],
                          hub.started_configs, 1)
       IN /\ WithinBounds(St, Count(tasks[1], task))
          /\ ready_calls' = Count(tasks[1], task)
          /\ tasks' = [tasks EXCEPT ![1] = task]
          /\ ext' = [HandlerAdvance(task) EXCEPT
                       !.trace = <<"start_app_configs">> \o @]
    /\ last' = [op |-> "startup"]
    /\ UNCHANGED <<hub, aggs, site, server, boot, sidebar>>

\* The awaited hook returns inside the handler.
HandlerHookReturns ==
    /\ ext.pc = "start_app_configs" /\ tasks[1].pc = "awaiting"
    /\ LET c == Awaited(1)
           st == SiteRegister(St, HookRegisters(c))
           started == StartedAfterReturn(hub.started_configs, c)
           task == Resume(tasks[1], started, tasks[1].idx + 1)
       IN /\ WithinBounds(st, Count(tasks[1], task))
          /\ hub' = [st.hub EXCEPT !.started_configs = started]
          /\ aggs' = st.aggs /\ site' = st.site /\ server' = st.server
          /\ ready_calls' = Count(tasks[1], task)
          /\ tasks' = [tasks EXCEPT ![1] = task]
          /\ ext' = HandlerAdvance(task)
          /\ last' = [op |-> "hook_returns", config |-> c]
    /\ UNCHANGED <<boot, sidebar>>

\* The awaited hook raises an Exception inside the handler: logged, and the
\* loop goes on.
HandlerHookRaises ==
    /\ ext.pc = "start_app_configs" /\ tasks[1].pc = "awaiting"
    /\ LET c == Awaited(1)
           task == AfterRaise(tasks[1], hub.started_configs)
       IN /\ WithinBounds(St, Count(tasks[1], task))
          /\ ready_calls' = Count(tasks[1], task)
          /\ tasks' = [tasks EXCEPT ![1] = task]
          /\ ext' = HandlerAdvance(task)
          /\ last' = [op |-> "hook_raises", config |-> c]
    /\ UNCHANGED <<hub, aggs, site, server, boot, sidebar>>

\* The awaited hook ends with something `except Exception` does not catch (a
\* cancellation): start_app_configs raises and so does the handler.
HandlerHookAborts ==
    /\ ext.pc = "start_app_configs" /\ tasks[1].pc = "awaiting"
    /\ tasks' = [tasks EXCEPT ![1].pc = "raised"]
    /\ ext' = [ext EXCEPT !.pc = "failed", !.failed_in = "start_app_configs"]
    /\ last' = [op |-> "hook_aborts", config |-> Awaited(1)]
    /\ UNCHANGED <<hub, aggs, site, server, ready_calls, boot, sidebar>>

\* A step of the handler other than a hook ended.
HandlerStep(pc, failed_in, trace) ==
    /\ ext' = [ext EXCEPT !.pc = pc, !.failed_in = failed_in,
                          !.trace = trace]
    /\ last' = [op |-> "startup_step"]
    /\ UNCHANGED <<hub, aggs, site, server, ready_calls, tasks, boot, sidebar>>

\* await hub_ref.admin_site.finalize() returns: start_publishers is called.
FinalizeReturns ==
    /\ ext.pc = "finalize"
    /\ HandlerStep("start_publishers", ext.failed_in,
                   Append(ext.trace, "start_publishers"))

\* await hub_ref.admin_site.finalize() raises.
FinalizeRaises ==
    /\ ext.pc = "finalize"
    /\ HandlerStep("failed", "finalize", ext.trace)

\* await hub_ref.admin_site.cards.start_publishers() returns.
PublishersReturn ==
    /\ ext.pc = "start_publishers"
    /\ HandlerStep("done", ext.failed_in, ext.trace)

\* await hub_ref.admin_site.cards.start_publishers() raises.
PublishersRaise ==
    /\ ext.pc = "start_publishers"
    /\ HandlerStep("failed", "start_publishers", ext.trace)

\* After BootManager.init: the hub holds the configs discovery found, none
\* started, and the handler is registered.
InitHandler ==
    /\ \E q \in Discoverable :
          hub = [app_configs |-> RegisterConfigs(<<>>, q),
                 started_configs |-> {}, router |-> None, settings |-> "s0"]
    /\ aggs = <<>>
    /\ site = NewSite("s0")
    /\ server = NewServer
    /\ ready_calls = [c \in AppConfigObjs |-> 0]
    /\ tasks = [t \in Tasks |-> IdleTask]
    /\ last = [op |-> "init"]
    /\ boot = Unused /\ sidebar = Unused
    /\ ext = [pc |-> "idle", failed_in |-> "", trace |-> <<>>]

NextHandler ==
    \/ HandlerBegins
    \/ HandlerHookReturns
    \/ HandlerHookRaises
    \/ HandlerHookAborts
    \/ FinalizeReturns
    \/ FinalizeRaises
    \/ PublishersReturn
    \/ PublishersRaise

\* One run of the startup handler _finalize_admin_site.
SpecHandler == InitHandler /\ [][NextHandler]_vars

\* C29: on framework startup the steps run one after another in the order
\* start_app_configs, admin_site.finalize, cards.start_publishers; finalize
\* does not begin before the hook of every registered config was attempted,
\* and when a step raises the later steps are not run.
C29_StartupSequence ==
    LET trace == ext.trace
        Begun(step) == step \in Range(trace)
    IN /\ trace \in {<<>>, <<"start_app_configs">>,
                     <<"start_app_configs", "finalize">>,
                     <<"start_app_configs", "finalize", "start_publishers">>}
       /\ Begun("finalize") =>
             /\ tasks[1].pc = "done"
             /\ tasks[1].invoked = hub.app_configs
             /\ \A c \in Range(hub.app_configs) :
                   \/ import_path(c) \in hub.started_configs
                   \/ c \in tasks[1].raised
       /\ ext.failed_in = "start_app_configs" => ~Begun("finalize")
       /\ ext.failed_in = "finalize" => ~Begun("start_publishers")
       /\ ext.pc = "done" => Begun("start_publishers") /\ ext.failed_in = ""
       /\ ext.pc = "start_publishers" <=>
             (Begun("start_publishers") /\ ext.failed_in = ""
                 /\ ext.pc # "done")

\* The handler ran to its end: two hooks were attempted in registration
\* order, the first of which raised, then finalize, then the publishers.
C29_Witness ==
    /\ ext.pc = "done"
    /\ Len(hub.app_configs) = 2
    /\ tasks[1].invoked = hub.app_configs
    /\ tasks[1].raised = {hub.app_configs[1]}
    /\ ext.trace = <<"start_app_configs", "finalize", "start_publishers">>

\* ---------------------------------------------------------------------------
\* Validation of the adapter behind the hub's admin site
\* ---------------------------------------------------------------------------

\* C30: BootManager.init never returns normally while the adapter the hub's
\* admin site is bound to lacks a required binding, with or without an adapter
\* argument; and a call that raises leaves the admin router unmounted and
\* registers no startup or shutdown hook. The code validates only the
\* adapter bound on the BootManager and skips the validation when none is
\* bound, while the cached hub keeps the adapter it was constructed with, so
\* the first half is violated.
C30_InitValidatesAdapter ==
    [][last'.op = "boot_init" /\ boot'.inits = boot.inits + 1 =>
          /\ last'.result.ok =>
                /\ boot'.hub
                /\ boot'.hub_adapter # NoAdapter
                /\ Lacks(boot'.hub_adapter) = {}
          /\ ~last'.result.ok =>
                /\ server' = server
                /\ boot'.app.on_startup = boot.app.on_startup
                /\ boot'.app.on_shutdown = boot.app.on_shutdown]_vars

\* ---------------------------------------------------------------------------
\* Priority of the prefixes in slug reconciliation
\* ---------------------------------------------------------------------------

\* The prefix matches the path: it has a segment, the path segments start
\* with its segments, and at least one segment follows.
PrefixMatches(segments, prefix) ==
    /\ prefix # <<>>
    /\ Len(prefix) < Len(segments)
    /\ \A i \in 1..Len(prefix) : segments[i] = prefix[i]

\* The slug derived from a matching prefix: the second segment after the
\* prefix when there are two or more, the only one otherwise.
SlugAfter(segments, prefix) ==
    IF Len(segments) - Len(prefix) >= 2
    THEN <<segments[Len(prefix) + 2]>>
    ELSE <<segments[Len(prefix) + 1]>>

\* C31: after reconciliation the model_name is the slug derived from the
\* views prefix when that prefix matches the path, else from the ORM prefix
\* when that one matches, else from the settings prefix when that one matches;
\* a prefix that equals the whole path does not match and the next one is
\* tried.
C31_PrefixPriority ==
    (last.op = "synchronize" /\ LowerSegments(sidebar.entry.path) # <<>>) =>
        LET segments == LowerSegments(sidebar.entry.path)
            segs == PrefixSegments(sidebar.prefixes)
            name == sidebar.entry.model_name
        IN /\ PrefixMatches(segments, segs.views) =>
                name = SlugAfter(segments, segs.views)
           /\ (~PrefixMatches(segments, segs.views)
               /\ PrefixMatches(segments, segs.orm)) =>
                name = SlugAfter(segments, segs.orm)
           /\ (~PrefixMatches(segments, segs.views)
               /\ ~PrefixMatches(segments, segs.orm)
               /\ PrefixMatches(segments, segs.settings)) =>
                name = SlugAfter(segments, segs.settings)
           /\ (segments = segs.views /\ PrefixMatches(segments, segs.orm)) =>
                name = SlugAfter(segments, segs.orm)

\* The path /views/orm/core/item was reconciled under a views prefix /views
\* and an ORM prefix /views/orm: both match, with the slugs "core" and
\* "item", and the entry is named "core".
C31_Witness ==
    /\ last.op = "synchronize"
    /\ sidebar.entry.path = <<Slash, "views", Slash, "orm", Slash, "core", Slash, "item">>
    /\ LET segments == LowerSegments(sidebar.entry.path)
           segs == PrefixSegments(sidebar.prefixes)
       IN /\ PrefixMatches(segments, segs.views)
          /\ PrefixMatches(segments, segs.orm)
          /\ SlugAfter(segments, segs.views) # SlugAfter(segments, segs.orm)
    /\ sidebar.entry.model_name = <<"core">>

\* ---------------------------------------------------------------------------
\* The settings filter of the model-registry entries
\* ---------------------------------------------------------------------------

\* SidebarBuilder.collect(admin_site, KIND_APPS, settings), which is
\* _collect_apps(admin_site, settings).
DoCollectApps ==
    \E settings \in BOOLEAN :
        /\ last' = [op |-> "collect_apps", settings |-> settings,
                    out |-> CollectApps(sidebar, settings)]
        /\ UNCHANGED <<hub, aggs, site, server, ready_calls, tasks,
                       boot, ext, sidebar>>

\* A site with no model registered, under any configuration of the prefixes.
InitCollect ==
    /\ HubAtRest
    /\ boot = Unused /\ ext = Unused
    /\ \E p \in PrefixConfigs :
          sidebar = [prefixes |-> p, models |-> <<>>, views |-> <<>>]

NextCollect ==
    \/ DoRegisterModel
    \/ DoCollectApps

\* Registration of models on one site and collections of its registry
\* entries in either mode.
SpecCollect == InitCollect /\ [][NextCollect]_vars

\* C32: _collect_apps in settings mode returns exactly the registry entries
\* whose settings flag is true, in non-settings mode exactly those whose flag
\* is false, each once under its app label; the path of a returned entry is
\* the settings prefix (flag true) or the ORM prefix (flag false) followed by
\* /{app_label}/{model_slug}.
C32_SettingsFilter ==
    last.op = "collect_apps" =>
        LET leaves == Leaves(last.out)
            wanted == {e \in Range(sidebar.models) : e.settings = last.settings}
        IN /\ {<<l.label, l.leaf.model_name>> : l \in leaves}
                = {<<e.app, <<e.model>>>> : e \in wanted}
           /\ LeafCount(last.out) = Cardinality(wanted)
           /\ \A l \in leaves :
                /\ l.leaf.settings = last.settings
                /\ l.leaf.path =
                     (IF l.leaf.settings THEN sidebar.prefixes.settings
                      ELSE sidebar.prefixes.orm)
                     \o <<Slash, l.label, Slash>> \o l.leaf.model_name

\* A registry holding core/adapter (settings) and core/systemsetting (not
\* settings) was collected in settings mode: only core/adapter came back, at
\* /settings/core/adapter.
C32_Witness ==
    /\ last.op = "collect_apps" /\ last.settings
    /\ \E e \in Range(sidebar.models) : ~e.settings /\ e.app = "core"
    /\ sidebar.prefixes.settings = <<Slash, "settings">>
    /\ Len(last.out) = 1
    /\ last.out[1].label = "core"
    /\ Len(last.out[1].models) = 1
    /\ last.out[1].models[1].model_name = <<"adapter">>
    /\ last.out[1].models[1].path =
          <<Slash, "settings", Slash, "core", Slash, "adapter">>

\* ---------------------------------------------------------------------------
\* ORMLifecycle.startup
\* ---------------------------------------------------------------------------

MaxStartups == 2

\* Errors Tortoise.init raises: a missing table, a refused connection, a bad
\* configuration, and the TypeError of an engine that does not take `config`.
OrmErrors ==
    {Raised("OperationalError", <<"missing table admin_content_type">>),
     Raised("OperationalError", <<"connection refused">>),
     Raised("ConfigurationError", <<"unknown app">>),
     Raised("TypeError", <<"unexpected keyword argument config">>)}

\* Outcomes of one call of Tortoise.init.
InitOutcomes == {Returned(None)} \cup OrmErrors

\* RuntimeWarnings the engine emits during initialisation: a module without
\* models (the module it names), or any other warning.
OrmWarnings ==
    {[module |-> "demo.app.models"], [module |-> ""]}

\* What the engine warns during one call of Tortoise.init.
CapturedWarnings == {<<>>} \cup {<<w>> : w \in OrmWarnings}

\* MigrationErrorClassifier.is_missing_schema(exc): the error tells of a
\* missing table. (The classifier is not part of src/.)
IsMissingSchema(exc) ==
    exc.kind = "OperationalError"
    /\ exc.message = <<"missing table admin_content_type">>

\* A lifecycle before its first startup: nothing logged, nothing displayed,
\* migrations not flagged, no startup call made. The state of the warnings
\* module is process-wide: recorder is the installed sink
\* (warnings._showwarnmsg_impl), 0 displaying the warning and k being the
\* list that call k's catch_warnings(record=True) created; always tells
\* whether the installed filter list has the ("always", RuntimeWarning)
\* entry of simplefilter, without which a RuntimeWarning has the default
\* action; registry holds the warnings the engine's module has been warned
\* of under the default action since the filters last changed
\* (__warningregistry__). Each call has its position, the sink and the
\* filter list it saved on entering, and the list it records into.
NewLifecycle ==
    [log |-> <<>>, shown |-> 0, migrations_required |-> FALSE, startups |-> 0,
     recorder |-> 0, always |-> FALSE, registry |-> {},
     calls |-> [k \in 1..MaxStartups |->
                   [pc |-> "none", saved |-> 0, saved_always |-> FALSE,
                    captured |-> <<>>]]]

\* warnings.showwarning(...) for each warning of ws, which hands the warning
\* to warnings._showwarnmsg_impl whatever the filters are: the warning goes
\* to the sink installed at that moment.
ShowWarnings(lc, ws) ==
    IF lc.recorder = 0 THEN [lc EXCEPT !.shown = @ + Len(ws)]
    ELSE [lc EXCEPT !.calls[lc.recorder].captured = @ \o ws]

\* warnings.warn(w, RuntimeWarning) by the engine for each warning of ws:
\* under the "always" filter every warning reaches the sink; under the
\* default action a warning reaches it once per text and location, until
\* the filters change.
RECURSIVE Warn(_, _)
Warn(lc, ws) ==
    IF ws = <<>> THEN lc
    ELSE LET w == Head(ws)
         IN IF lc.always
            THEN Warn(ShowWarnings(lc, <<w>>), Tail(ws))
            ELSE IF w \in lc.registry
            THEN Warn(lc, Tail(ws))
            ELSE Warn(ShowWarnings([lc EXCEPT !.registry = @ \cup {w}],
                                   <<w>>),
                      Tail(ws))

\* ORMLifecycle._handle_startup_warnings(captured, showwarning): a warning
\* that names no module is passed to showwarning; the first one per module
\* is logged.
RECURSIVE HandleStartupWarnings(_, _, _)
HandleStartupWarnings(lc, captured, missing_models) ==
    IF captured = <<>> THEN lc
    ELSE LET w == Head(captured)
         IN IF w.module = ""
            THEN HandleStartupWarnings(ShowWarnings(lc, <<w>>),
                                       Tail(captured), missing_models)
            ELSE IF w.module \in missing_models
            THEN HandleStartupWarnings(lc, Tail(captured), missing_models)
            ELSE HandleStartupWarnings(
                    [lc EXCEPT !.log = Append(@, [level |-> "warning",
                                                  module |-> w.module])],
                    Tail(captured), missing_models \cup {w.module})

\* ORMLifecycle._initialise_orm(), lines 83-86, for call k: the with
\* statement saves the installed filter list and sink, installs a copy of
\* the list and the call's own recording list, and simplefilter puts the
\* "always" entry into the copy; every change of the filters invalidates
\* the registry. The coroutine then awaits Tortoise.init(config=...).
EnterInitialise(lc, k) ==
    [lc EXCEPT !.calls[k] = [pc |-> "init", saved |-> lc.recorder,
                             saved_always |-> lc.always,
                             captured |-> <<>>],
               !.recorder = k,
               !.always = TRUE,
               !.registry = {},
               !.startups = k]

\* ORMLifecycle._initialise_orm(), from the return of the last awaited
\* Tortoise.init on: the with statement puts the saved filter list and the
\* saved sink back, and when the initialisation returned the warnings of the
\* call's list are handled; an error leaves them unhandled.
LeaveInitialise(lc, k, outcome) ==
    LET left == [lc EXCEPT !.recorder = lc.calls[k].saved,
                           !.always = lc.calls[k].saved_always,
                           !.registry = {},
                           !.calls[k].pc = "done"]
    IN IF outcome.ok
       THEN HandleStartupWarnings(left, lc.calls[k].captured, {})
       ELSE left

\* ORMLifecycle._mark_migrations_required(): the system configuration is
\* flagged; when that raises, the error is swallowed and a debug record
\* logged. (system_config is not part of src/.)
MarkMigrationsRequired(lc, flag_raises) ==
    IF flag_raises
    THEN [lc EXCEPT !.log = Append(@, [level |-> "debug",
                        message |-> "Unable to flag migration requirement"])]
    ELSE [lc EXCEPT !.migrations_required = TRUE]

\* ORMLifecycle._handle_startup_failure(error)
HandleStartupFailure(lc, error, flag_raises) ==
    MarkMigrationsRequired(
        [lc EXCEPT !.log = Append(@, [level |-> "error", error |-> error,
                                      hint |-> "Run your migrations"])],
        flag_raises)

\* Mutant of LifecycleStartup: every initialisation error is contained.
LifecycleStartupContainAll(lc, k, outcome, flag_raises) ==
    LET left == LeaveInitialise(lc, k, outcome)
    IN IF ~outcome.ok
       THEN [lc |-> HandleStartupFailure(left, outcome, flag_raises),
             result |-> Returned(None)]
       ELSE [lc |-> left, result |-> outcome]

\* ORMLifecycle.startup() of call k once the awaited initialisation has the
\* outcome: _initialise_orm finishes, and a missing-schema error is handled
\* while any other error is raised again.
LifecycleStartup(lc, k, outcome, flag_raises) ==
    LET left == LeaveInitialise(lc, k, outcome)
    IN IF ~outcome.ok /\ IsMissingSchema(outcome)
       THEN [lc |-> HandleStartupFailure(left, outcome, flag_raises),
             result |-> Returned(None)]
       ELSE [lc |-> left, result |-> outcome]

\* lifecycle.startup() is called and runs up to its first await.
DoLifecycleStartup ==
    /\ ext.startups < MaxStartups
    /\ ext' = EnterInitialise(ext, ext.startups + 1)
    /\ last' = [op |-> "orm_startup_begin", call |-> ext.startups + 1]
    /\ UNCHANGED <<hub, aggs, site, server, ready_calls, tasks, boot, sidebar>>

\* An awaited Tortoise.init of call k (the first when pc is "init", the one
\* with the legacy signature when pc is "fallback") emits its warnings and
\* returns or raises. A TypeError of the first makes the call await the
\* second; otherwise startup() runs to its end. flag_raises tells whether
\* flagging the system configuration fails, which matters when the error is
\* a missing schema.
DoTortoiseInit ==
    \E k \in 1..MaxStartups, outcome \in InitOutcomes,
       warned \in CapturedWarnings, flag_raises \in BOOLEAN :
        LET warnedlc == Warn(ext, warned)
            r == LifecycleStartup(warnedlc, k, outcome, flag_raises)
        IN /\ ext.calls[k].pc \in {"init", "fallback"}
           /\ flag_raises => (~outcome.ok /\ IsMissingSchema(outcome))
           /\ IF ext.calls[k].pc = "init" /\ ~outcome.ok
                 /\ outcome.kind = "TypeError"
              THEN /\ ext' = [warnedlc EXCEPT !.calls[k].pc = "fallback"]
                   /\ last' = [op |-> "orm_fallback", call |-> k]
              ELSE /\ ext' = r.lc
                   /\ last' = [op |-> "orm_startup", call |-> k,
                               raised |-> outcome, result |-> r.result,
                               flag_raises |-> flag_raises]
           /\ UNCHANGED <<hub, aggs, site, server, ready_calls, tasks,
                          boot, sidebar>>

\* A lifecycle that was constructed and bound, not started yet.
InitLifecycle ==
    /\ HubAtRest
    /\ boot = Unused /\ sidebar = Unused
    /\ ext = NewLifecycle

NextLifecycle == DoLifecycleStartup \/ DoTortoiseInit

\* Startups of one ORM lifecycle, in one event loop: a call that awaits the
\* engine can be overtaken by another.
SpecLifecycle == InitLifecycle /\ [][NextLifecycle]_vars

\* The step ended startup call last'.call.
StartupEnded ==
    /\ last'.op = "orm_startup"
    /\ ext.calls[last'.call].pc # "done"
    /\ ext'.calls[last'.call].pc = "done"

\* C33 as stated: when ORM initialisation raises an error classified as a
\* missing schema, startup logs the error with the run-your-migrations hint,
\* flags migrations as required and returns normally; any other
\* initialisation error propagates to the caller unchanged, nothing logged
\* and nothing flagged by that call. Violated where flagging itself fails.
C33_StartupContainsMissingSchema ==
    [][StartupEnded /\ ~last'.raised.ok =>
          IF IsMissingSchema(last'.raised)
          THEN /\ last'.result = Returned(None)
               /\ ext'.log = Append(ext.log, [level |-> "error",
                                              error |-> last'.raised,
                                              hint |-> "Run your migrations"])
               /\ ext'.migrations_required
          ELSE /\ last'.result = last'.raised
               /\ ext'.log = ext.log
               /\ ext'.migrations_required = ext.migrations_required]_vars

\* C33, amended: a missing-schema error makes startup log the error with the
\* run-your-migrations hint, ask the system configuration to flag migrations
\* as required and return normally; the flag is set unless flagging itself
\* raises, in which case a debug record follows the error record and the
\* flag is left as it was. Any other initialisation error propagates
\* unchanged, nothing logged and nothing flagged by that call.
C33_StartupContainsBestEffortFlag ==
    [][StartupEnded /\ ~last'.raised.ok =>
          LET record == [level |-> "error", error |-> last'.raised,
                         hint |-> "Run your migrations"]
              debug == [level |-> "debug",
                        message |-> "Unable to flag migration requirement"]
          IN IF IsMissingSchema(last'.raised)
             THEN /\ last'.result = Returned(None)
                  /\ IF last'.flag_raises
                     THEN /\ ext'.log = ext.log \o <<record, debug>>
                          /\ ext'.migrations_required = ext.migrations_required
                     ELSE /\ ext'.log = Append(ext.log, record)
                          /\ ext'.migrations_required
             ELSE /\ last'.result = last'.raised
                  /\ ext'.log = ext.log
                  /\ ext'.migrations_required = ext.migrations_required]_vars

\* The second startup of a lifecycle, begun while the first was still
\* awaiting the engine, hit the missing table: it returned normally, logged
\* the hint and flagged the migrations.
C33_Witness ==
    /\ last.op = "orm_startup"
    /\ last.call = 2
    /\ ext.calls[1].pc = "init"
    /\ ~last.raised.ok
    /\ IsMissingSchema(last.raised)
    /\ last.result.ok
    /\ ~last.flag_raises
    /\ ext.migrations_required
    /\ Len(ext.log) = 1
    /\ ext.log[1].level = "error"

\* ---------------------------------------------------------------------------
\* Frame of the BootManager's settings observer
\* ---------------------------------------------------------------------------

\* C34: a settings notification to the BootManager changes only its cached
\* settings reference: the adapter slot, the contents of the ModelRegistrar,
\* the cached hub reference and the system app config are as before, and so
\* is everything else the manager and the hub hold.
C34_SettingsObserverFrame ==
    [][last'.op = "boot_settings_update" =>
          /\ boot'.adapter = boot.adapter
          /\ boot'.registrar = boot.registrar
          /\ boot'.hub = boot.hub
          /\ boot'.hub_adapter = boot.hub_adapter
          /\ boot'.system_app = boot.system_app
          /\ boot' = [boot EXCEPT !.settings = boot'.settings]
          /\ <<hub, aggs, site, server>>' = <<hub, aggs, site, server>>]_vars

\* An initialised manager, with an adapter bound, a config registered, the
\* hub cached and the system app created, was notified of new settings and
\* holds them.
C34_Witness ==
    /\ last.op = "boot_settings_update"
    /\ boot.settings # "s0"
    /\ boot.adapter # NoAdapter
    /\ boot.registrar.configs # <<>>
    /\ boot.hub
    /\ boot.system_app

\* ---------------------------------------------------------------------------
\* The started set and raising hooks
\* ---------------------------------------------------------------------------

\* C35: a hook that raises does not put its path into the started set: the
\* path stays pending, the next start_app_configs call has the config in its
\* snapshot and, when it returns, has invoked the hook of every config of its
\* snapshot that is still not started. A path enters the started set only in
\* the step in which an invocation of its config's hook returns.
C35_RaisedStaysPending ==
    [][/\ last'.op = "hook_raises" =>
             /\ hub'.started_configs = hub.started_configs
             /\ import_path(last'.config) \notin hub'.started_configs
       /\ \A p \in hub'.started_configs \ hub.started_configs :
             /\ last'.op = "hook_returns"
             /\ import_path(last'.config) = p
             /\ \E t \in Tasks : tasks[t].pc = "awaiting"
                                 /\ Awaited(t) = last'.config
       /\ last'.op = "start_app_configs" =>
             \A c \in tasks[last'.task].raised :
                import_path(c) \notin hub.started_configs =>
                   c \in Range(tasks'[last'.task].snapshot)
       /\ \A t \in Tasks : tasks'[t].pc = "done" =>
             \A c \in Range(tasks'[t].snapshot) :
                import_path(c) \notin hub'.started_configs =>
                   c \in Range(tasks'[t].invoked)]_vars

\* The hook of "a1" raised in one call and was invoked again
\* by a later call, in which it raised again: "pkg.a" is still not started.
C35_Witness ==
    /\ last.op = "hook_raises" /\ last.config = "a1"
    /\ ready_calls["a1"] = 2
    /\ tasks[1].pc = "done"
    /\ tasks[1].raised = {"a1"}
    /\ "pkg.a" \notin hub.started_configs

\* ---------------------------------------------------------------------------
\* Interleaved start_app_configs calls
\* ---------------------------------------------------------------------------

\* hub.start_app_configs() is called by a task of the event loop, also while
\* the other call is suspended at the await of a hook.
StartInterleaved == \E t \in Tasks : Start(t)

NextInterleaved ==
    \/ DoAutodiscover
    \/ StartInterleaved
    \/ HookReturns

\* One AdminHub: discovery and start_app_configs calls that may overlap at
\* the await of a hook; every hook returns.
SpecInterleaved == Init /\ [][NextInterleaved]_vars

\* C36: when two start_app_configs calls on one hub interleave at the await
\* of a hook, no config's hook is invoked more than once. The loop tests the
\* started set before the await and adds the path after it, so the second
\* call finds the path of the awaited hook not started and invokes the hook
\* again: the statement is violated.
C36_NoDoubleInvocation ==
    \A c \in AppConfigObjs : ready_calls[c] <= 1

\* ---------------------------------------------------------------------------
\* The snapshot of a start_app_configs call
\* ---------------------------------------------------------------------------

\* C37: a start_app_configs call works on the table as it was when its loop
\* began: the list it walks changes only when a call begins, and is then the
\* whole table; a config inserted by autodiscover while a hook of the call is
\* awaited is not invoked by the call and is not started when the call
\* returns; the next call has it in its list and, when it returns, has
\* started it unless its hook raised.
C37_SnapshotAtLoopStart ==
    [][/\ \A t \in Tasks :
             IF last'.op = "start_app_configs" /\ last'.task = t
             THEN tasks'[t].snapshot = hub.app_configs
             ELSE tasks'[t].snapshot = tasks[t].snapshot
       /\ \A t \in Tasks :
             \A c \in Range(hub'.app_configs) \ Range(tasks'[t].snapshot) :
                /\ c \notin Range(tasks'[t].invoked)
                /\ (tasks'[t].pc = "done" /\ tasks[t].pc = "awaiting") =>
                      import_path(c) \notin hub'.started_configs
       /\ \A t \in Tasks : tasks'[t].pc = "done" =>
             \A c \in Range(tasks'[t].snapshot) :
                \/ import_path(c) \in hub'.started_configs
                \/ c \in tasks'[t].raised]_vars

\* The call that began with only "b1" in the table has returned after the
\* hook of "b1" returned; "a1" was inserted meanwhile, was not invoked and is
\* not started.
C37_Witness ==
    /\ last.op = "hook_returns" /\ last.config = "b1"
    /\ tasks[1].pc = "done"
    /\ tasks[1].snapshot = <<"b1">>
    /\ tasks[1].invoked = <<"b1">>
    /\ hub.app_configs = <<"b1", "a1">>
    /\ ready_calls["a1"] = 0
    /\ hub.started_configs = {"pkg.b"}

\* ---------------------------------------------------------------------------
\* The config table and the started set only grow
\* ---------------------------------------------------------------------------

\* C38: in every reachable state of a hub the started set is a subset of the
\* import paths of the config table; no step removes a config from the table
\* (the table after the step begins with the table before it) or a path from
\* the started set.
C38_StartedWithinTable ==
    /\ [](hub.started_configs
             \subseteq {import_path(c) : c \in Range(hub.app_configs)})
    /\ [][/\ hub.started_configs \subseteq hub'.started_configs
          /\ Len(hub.app_configs) <= Len(hub'.app_configs)
          /\ SubSeq(hub'.app_configs, 1, Len(hub.app_configs))
                = hub.app_configs]_vars

\* Both configs of the table are started, "pkg.b" after "pkg.a", and a later
\* autodiscover found nothing new.
C38_Witness ==
    /\ last.op = "autodiscover" /\ ~last.new
    /\ hub.app_configs = <<"a1", "b1">>
    /\ hub.started_configs = {"pkg.a", "pkg.b"}
    /\ ready_calls["a1"] = 1 /\ ready_calls["b1"] = 1

\* ---------------------------------------------------------------------------
\* Static, favicon and media mounts through the hub
\* ---------------------------------------------------------------------------

\* C39: for one hub and one server, static assets, favicon and media are
\* mounted on the server at most once over any sequence of init_app calls,
\* discoveries of new configs and settings updates. The hub drops its router
\* wrapper on a new config and on a settings update, the wrapper made by the
\* next init_app has an aggregator of its own, with its own "already mounted"
\* flags, and that aggregator mounts all three again: the statement is
\* violated.
C39_HubMountsAssetsOnce ==
    server.static <= 1 /\ server.favicon <= 1 /\ server.media <= 1

\* ---------------------------------------------------------------------------
\* Agreement of the hub's adapter with the BootManager's
\* ---------------------------------------------------------------------------

\* C40: whenever BootManager.init(server, adapter=X) returns normally, the
\* hub it mounted through is bound to X, the adapter bound on the
\* BootManager, also after a reset and a re-initialisation with another
\* adapter and when the hub existed before the call. The hub is the
\* module-level one, constructed once, at the first import of the runtime
\* module, with the adapter the process-wide manager had then, and cached by
\* _ensure_hub; reset() and a later binding do not reach it, nor does a
\* binding on another manager: the statement is violated.
C40_HubAdapterAgrees ==
    (last.op = "boot_init" /\ last.adapter # NoName /\ last.result.ok) =>
        /\ boot.adapter = boot.registry[last.adapter]
        /\ boot.hub
        /\ boot.hub_adapter = boot.adapter

====
